---- MODULE Spec2Model ----
(***************************************************************************)
(* A model of powdertime's core: the snowfall analyzer                     *)
(* (src/powdertime/analyzer.py) and the resort finder                      *)
(* (src/powdertime/resorts.py).                                            *)
(*                                                                         *)
(* Snowfall amounts, thresholds, coordinates and distances are floats in   *)
(* the program; the model uses integers (whole units).  The code only adds *)
(* and compares them, so the order and the sums are kept.                  *)
(*                                                                         *)
(* Python's None is the empty tuple and a present value x is <<x>>, so     *)
(* that an optional value can be compared by TLC whatever x is.            *)
(***************************************************************************)
EXTENDS Integers, Sequences, FiniteSets

\* ------------------------------------------------------------------ bounds

\* Longest forecast sequence handed to the analyzer.
MaxDays == 3
\* Largest single-day snowfall.
MaxSnow == 2
\* Number of distinct calendar dates a forecast entry can carry.
MaxDate == 2
\* Largest analyzer threshold.
MaxThreshold == 2
\* Largest coordinate of a search origin (origins lie on a square grid).
MaxCoord == 3
\* Largest search radius.
MaxRadius == 4
\* Longest forecast sequence of one resort in a resort -> forecasts mapping.
MaxMapDays == 1
\* Longest manual resort list handed to get_resorts_from_config.
MaxSpecs == 2

\* ------------------------------------------------------------ Python values

None == << >>
Some(x) == << x >>
IsNone(o) == o = << >>
Get(o) == o[1]

\* Snowfall of one day.  The data model calls it non-negative, the code does
\* not enforce that: one negative value stands for such an entry.
Snowfall == (-1) .. MaxSnow
Dates == 1 .. MaxDate
Thresholds == (-1) .. MaxThreshold

\* weather.py: WeatherForecast (temperature_f and conditions are never read by
\* the analyzer's computation and are left out).
WeatherForecast == [date : Dates, snowfall_inches : Snowfall]

RECURSIVE SeqsUpTo(_, _)
SeqsUpTo(S, n) ==
    IF n = 0 THEN { << >> }
    ELSE LET shorter == SeqsUpTo(S, n - 1)
         IN  shorter \cup { Append(s, x) : s \in { t \in shorter : Len(t) = n - 1 }, x \in S }

ForecastLists == SeqsUpTo(WeatherForecast, MaxDays)

\* ------------------------------------------------------------ analyzer.py

\* sum(f.snowfall_inches for f in forecasts): a left fold from 0.
RECURSIVE SumFrom(_, _, _)
SumFrom(acc, forecasts, i) ==
    IF i > Len(forecasts) THEN acc
    ELSE SumFrom(acc + forecasts[i].snowfall_inches, forecasts, i + 1)

\* Mutant: the total taken over the days with snow only.
total_snowfall_of_snow_days(forecasts) ==
    SumFrom(0, SelectSeq(forecasts, LAMBDA f : f.snowfall_inches > 0), 1)

total_snowfall_of(forecasts) == SumFrom(0, forecasts, 1)

\* max((f.snowfall_inches for f in forecasts), default=0): the first item,
\* then every later item that is strictly larger; 0 when there is no item.
RECURSIVE MaxFrom(_, _, _)
MaxFrom(best, forecasts, i) ==
    IF i > Len(forecasts) THEN best
    ELSE MaxFrom(IF forecasts[i].snowfall_inches > best
                 THEN forecasts[i].snowfall_inches ELSE best,
                 forecasts, i + 1)

\* Mutant: the snowfall of the first day taken for the largest.
max_daily_of_first(forecasts) ==
    IF Len(forecasts) = 0 THEN 0 ELSE forecasts[1].snowfall_inches

max_daily_of(forecasts) ==
    IF Len(forecasts) = 0 THEN 0
    ELSE MaxFrom(forecasts[1].snowfall_inches, forecasts, 2)

\* [f for f in forecasts if f.snowfall_inches > 0]
RECURSIVE SnowDaysFrom(_, _, _)
SnowDaysFrom(acc, forecasts, i) ==
    IF i > Len(forecasts) THEN acc
    ELSE SnowDaysFrom(IF forecasts[i].snowfall_inches > 0
                      THEN Append(acc, forecasts[i]) ELSE acc,
                      forecasts, i + 1)

\* Mutant: the filter written `>= 0`.
snow_days_of_non_negative(forecasts) ==
    SelectSeq(forecasts, LAMBDA f : f.snowfall_inches >= 0)

snow_days_of(forecasts) == SnowDaysFrom(<< >>, forecasts, 1)

\* Mutant: the empty-input check left out.
no_forecasts_unchecked(forecasts) == FALSE

\* `if not forecasts`: an empty list is falsy.
no_forecasts(forecasts) == Len(forecasts) = 0

\* Mutant: the comparison written `<=`.
below_threshold_inclusive(total, threshold) == total <= threshold

\* Mutant: the operands exchanged.
below_threshold_swapped(total, threshold) == threshold < total

\* `if total_snowfall < self.threshold_inches`
below_threshold(total, threshold) == total < threshold

\* Mutant: forecasts[0].date, without the conditional.
start_date_of_unguarded(fs) ==
    IF Len(fs) >= 1 THEN [raised |-> "", value |-> Some(fs[1].date)]
    ELSE [raised |-> "IndexError", value |-> None]

\* Mutant: the last date read from the first entry.
end_date_of_first(fs) ==
    IF Len(fs) # 0 THEN [raised |-> "", value |-> Some(fs[1].date)]
    ELSE [raised |-> "", value |-> None]

\* forecasts[0].date if forecasts else None
\* Indexing an empty list raises IndexError; the conditional keeps the index
\* from being evaluated then.
start_date_of(fs) ==
    IF Len(fs) # 0
    THEN (IF Len(fs) >= 1 THEN [raised |-> "", value |-> Some(fs[1].date)]
          ELSE [raised |-> "IndexError", value |-> None])
    ELSE [raised |-> "", value |-> None]

\* forecasts[-1].date if forecasts else None
end_date_of(fs) ==
    IF Len(fs) # 0
    THEN (IF Len(fs) >= 1 THEN [raised |-> "", value |-> Some(fs[Len(fs)].date)]
          ELSE [raised |-> "IndexError", value |-> None])
    ELSE [raised |-> "", value |-> None]

\* SnowEvent.__init__: the result of the constructor call, an object or the
\* exception it raised.
SnowEvent(r, fs, total, max_daily) ==
    LET s == start_date_of(fs)
        e == end_date_of(fs)
    IN  IF s.raised # "" THEN [raised |-> s.raised, value |-> None]
        ELSE IF e.raised # "" THEN [raised |-> e.raised, value |-> None]
        ELSE [raised |-> "",
              value |-> Some([resort |-> r,
                              forecasts |-> fs,
                              total_snowfall |-> total,
                              max_daily_snowfall |-> max_daily,
                              start_date |-> s.value,
                              end_date |-> e.value])]

\* SnowAnalyzer.analyze_forecast
analyze_forecast(threshold, r, fs) ==
    IF no_forecasts(fs) THEN [raised |-> "", value |-> None]
    ELSE LET total == total_snowfall_of(fs)
         IN  IF below_threshold(total, threshold)
             THEN [raised |-> "", value |-> None]
             ELSE SnowEvent(r, snow_days_of(fs), total, max_daily_of(fs))

\* A dict is the sequence of its (key, value) pairs in insertion order, which
\* is the order .items() iterates in; its keys are pairwise distinct.
DictKeys(d) == [i \in 1 .. Len(d) |-> d[i][1]]

\* The loop of find_significant_events: analyze each entry in turn and append
\* the event when there is one (`if event`: None is falsy, a SnowEvent truthy).
RECURSIVE EventsFrom(_, _, _, _)
EventsFrom(acc, threshold, resort_forecasts, i) ==
    IF i > Len(resort_forecasts) THEN [raised |-> "", value |-> acc]
    ELSE LET r == analyze_forecast(threshold, resort_forecasts[i][1],
                                   resort_forecasts[i][2])
         IN  IF r.raised # "" THEN [raised |-> r.raised, value |-> << >>]
             ELSE EventsFrom(IF IsNone(r.value) THEN acc
                             ELSE Append(acc, Get(r.value)),
                             threshold, resort_forecasts, i + 1)

\* Mutant: the loop left after the first event (a `break` or `return` in it).
RECURSIVE FirstEventFrom(_, _, _)
FirstEventFrom(threshold, resort_forecasts, i) ==
    IF i > Len(resort_forecasts) THEN [raised |-> "", value |-> << >>]
    ELSE LET r == analyze_forecast(threshold, resort_forecasts[i][1],
                                   resort_forecasts[i][2])
         IN  IF IsNone(r.value)
             THEN FirstEventFrom(threshold, resort_forecasts, i + 1)
             ELSE [raised |-> "", value |-> << Get(r.value) >>]

collect_events_first_only(threshold, resort_forecasts) ==
    FirstEventFrom(threshold, resort_forecasts, 1)

\* events = []; for resort, forecasts in resort_forecasts.items(): ...
collect_events(threshold, resort_forecasts) ==
    EventsFrom(<< >>, threshold, resort_forecasts, 1)

\* One event put into a list sorted by descending total_snowfall: after every
\* event whose total is not smaller.
RECURSIVE InsertByTotal(_, _)
InsertByTotal(sorted, e) ==
    IF sorted = << >> THEN << e >>
    ELSE IF e.total_snowfall > Head(sorted).total_snowfall THEN << e >> \o sorted
    ELSE << Head(sorted) >> \o InsertByTotal(Tail(sorted), e)

RECURSIVE SortByTotalFrom(_, _, _)
SortByTotalFrom(sorted, events, i) ==
    IF i > Len(events) THEN sorted
    ELSE SortByTotalFrom(InsertByTotal(sorted, events[i]), events, i + 1)

\* The same by ascending total, after every event whose total is not larger.
RECURSIVE InsertByTotalAscending(_, _)
InsertByTotalAscending(sorted, e) ==
    IF sorted = << >> THEN << e >>
    ELSE IF e.total_snowfall < Head(sorted).total_snowfall THEN << e >> \o sorted
    ELSE << Head(sorted) >> \o InsertByTotalAscending(Tail(sorted), e)

RECURSIVE SortByTotalAscendingFrom(_, _, _)
SortByTotalAscendingFrom(sorted, events, i) ==
    IF i > Len(events) THEN sorted
    ELSE SortByTotalAscendingFrom(InsertByTotalAscending(sorted, events[i]),
                                  events, i + 1)

\* Mutant: an ascending sort followed by reversing the list, which is
\* descending but turns the order of equal totals around.
sort_by_total_reversed_after(events) ==
    LET up == SortByTotalAscendingFrom(<< >>, events, 1)
    IN  [k \in 1 .. Len(up) |-> up[Len(up) + 1 - k]]

\* events.sort(key=lambda e: e.total_snowfall, reverse=True): list.sort is
\* stable, with reverse=True too.
sort_by_total(events) == SortByTotalFrom(<< >>, events, 1)

\* SnowAnalyzer.find_significant_events
find_significant_events(threshold, resort_forecasts) ==
    LET r == collect_events(threshold, resort_forecasts)
    IN  IF r.raised # "" THEN r
        ELSE [raised |-> "", value |-> sort_by_total(r.value)]

\* ------------------------------------------------------------ Python str

\* A str is named by a TLA+ string; Chars gives its characters, for the
\* operations that look into it.
Chars(name) ==
    CASE name = "Vail" -> << "V", "a", "i", "l" >>
      [] name = "Breckenridge" -> << "B", "r", "e", "c", "k", "e", "n", "r", "i", "d", "g", "e" >>
      [] name = "Keystone" -> << "K", "e", "y", "s", "t", "o", "n", "e" >>
      [] name = "Aspen Mountain" -> << "A", "s", "p", "e", "n", " ", "M", "o", "u", "n", "t", "a", "i", "n" >>
      [] name = "Steamboat" -> << "S", "t", "e", "a", "m", "b", "o", "a", "t" >>
      [] name = "Winter Park" -> << "W", "i", "n", "t", "e", "r", " ", "P", "a", "r", "k" >>
      [] name = "Copper Mountain" -> << "C", "o", "p", "p", "e", "r", " ", "M", "o", "u", "n", "t", "a", "i", "n" >>
      [] name = "Arapahoe Basin" -> << "A", "r", "a", "p", "a", "h", "o", "e", " ", "B", "a", "s", "i", "n" >>
      [] name = "Loveland" -> << "L", "o", "v", "e", "l", "a", "n", "d" >>
      [] name = "Telluride" -> << "T", "e", "l", "l", "u", "r", "i", "d", "e" >>
      [] name = "Park City" -> << "P", "a", "r", "k", " ", "C", "i", "t", "y" >>
      [] name = "Alta" -> << "A", "l", "t", "a" >>
      [] name = "Snowbird" -> << "S", "n", "o", "w", "b", "i", "r", "d" >>
      [] name = "Deer Valley" -> << "D", "e", "e", "r", " ", "V", "a", "l", "l", "e", "y" >>
      [] name = "Brighton" -> << "B", "r", "i", "g", "h", "t", "o", "n" >>
      [] name = "Solitude" -> << "S", "o", "l", "i", "t", "u", "d", "e" >>
      [] name = "Snowbasin" -> << "S", "n", "o", "w", "b", "a", "s", "i", "n" >>
      [] name = "Jackson Hole" -> << "J", "a", "c", "k", "s", "o", "n", " ", "H", "o", "l", "e" >>
      [] name = "Mammoth Mountain" -> << "M", "a", "m", "m", "o", "t", "h", " ", "M", "o", "u", "n", "t", "a", "i", "n" >>
      [] name = "Palisades Tahoe" -> << "P", "a", "l", "i", "s", "a", "d", "e", "s", " ", "T", "a", "h", "o", "e" >>
      [] name = "Heavenly" -> << "H", "e", "a", "v", "e", "n", "l", "y" >>
      [] name = "Northstar" -> << "N", "o", "r", "t", "h", "s", "t", "a", "r" >>
      [] name = "Kirkwood" -> << "K", "i", "r", "k", "w", "o", "o", "d" >>
      [] name = "Stowe" -> << "S", "t", "o", "w", "e" >>
      [] name = "Killington" -> << "K", "i", "l", "l", "i", "n", "g", "t", "o", "n" >>
      [] name = "Sugarbush" -> << "S", "u", "g", "a", "r", "b", "u", "s", "h" >>
      [] name = "Loon Mountain" -> << "L", "o", "o", "n", " ", "M", "o", "u", "n", "t", "a", "i", "n" >>
      [] name = "Bretton Woods" -> << "B", "r", "e", "t", "t", "o", "n", " ", "W", "o", "o", "d", "s" >>
      [] name = "Whiteface" -> << "W", "h", "i", "t", "e", "f", "a", "c", "e" >>
      [] name = "Hunter" -> << "H", "u", "n", "t", "e", "r" >>
      [] name = "Bellayre" -> << "B", "e", "l", "l", "a", "y", "r", "e" >>
      [] name = "Windham" -> << "W", "i", "n", "d", "h", "a", "m" >>
      [] name = "Plattekill Mountain" -> << "P", "l", "a", "t", "t", "e", "k", "i", "l", "l", " ", "M", "o", "u", "n", "t", "a", "i", "n" >>
      [] name = "Holiday Mountain" -> << "H", "o", "l", "i", "d", "a", "y", " ", "M", "o", "u", "n", "t", "a", "i", "n" >>
      [] name = "Catamount" -> << "C", "a", "t", "a", "m", "o", "u", "n", "t" >>
      [] name = "Butternut" -> << "B", "u", "t", "t", "e", "r", "n", "u", "t" >>
      [] name = "Camelback" -> << "C", "a", "m", "e", "l", "b", "a", "c", "k" >>
      [] name = "Big Sky" -> << "B", "i", "g", " ", "S", "k", "y" >>
      [] name = "Sun Valley" -> << "S", "u", "n", " ", "V", "a", "l", "l", "e", "y" >>
      [] name = "Crystal Mountain" -> << "C", "r", "y", "s", "t", "a", "l", " ", "M", "o", "u", "n", "t", "a", "i", "n" >>
      [] name = "Stevens Pass" -> << "S", "t", "e", "v", "e", "n", "s", " ", "P", "a", "s", "s" >>
      [] name = "vail" -> << "v", "a", "i", "l" >>
      [] name = "VAIL" -> << "V", "A", "I", "L" >>
      [] name = "vAiL" -> << "v", "A", "i", "L" >>
      [] name = "breckenridge" -> << "b", "r", "e", "c", "k", "e", "n", "r", "i", "d", "g", "e" >>
      [] name = "KEYSTONE" -> << "K", "E", "Y", "S", "T", "O", "N", "E" >>
      [] name = "aspen mountain" -> << "a", "s", "p", "e", "n", " ", "m", "o", "u", "n", "t", "a", "i", "n" >>
      [] name = "Vale" -> << "V", "a", "l", "e" >>
      [] name = "Vai" -> << "V", "a", "i" >>
      [] name = "Nonexistent" -> << "N", "o", "n", "e", "x", "i", "s", "t", "e", "n", "t" >>
      [] name = "My Hill" -> << "M", "y", " ", "H", "i", "l", "l" >>

UpperLetters ==
    << "A", "B", "C", "D", "E", "F", "G", "H", "I", "J", "K", "L", "M",
       "N", "O", "P", "Q", "R", "S", "T", "U", "V", "W", "X", "Y", "Z" >>

LowerLetters ==
    << "a", "b", "c", "d", "e", "f", "g", "h", "i", "j", "k", "l", "m",
       "n", "o", "p", "q", "r", "s", "t", "u", "v", "w", "x", "y", "z" >>

\* str.lower() on one character: an upper-case letter becomes its lower-case
\* letter, every other character is kept.
lower_char(c) ==
    IF \E i \in 1 .. Len(UpperLetters) : UpperLetters[i] = c
    THEN LowerLetters[CHOOSE i \in 1 .. Len(UpperLetters) : UpperLetters[i] = c]
    ELSE c

\* Mutant: no case folding.
str_lower_unchanged(chars) == chars

\* str.lower(), on the characters of a str.
str_lower(chars) == [i \in 1 .. Len(chars) |-> lower_char(chars[i])]

\* -------------------------------------------------------------- resorts.py

\* SkiResort.__init__.  elevation and state are optional (`elevation: int =
\* None, state: str = None`): Some(value) or None.
SkiResort(name, latitude, longitude, elevation, state) ==
    [name |-> name, latitude |-> latitude, longitude |-> longitude,
     elevation |-> elevation, state |-> state]

\* SKI_RESORTS: the head of the table, in its declaration order.  The
\* coordinates are moved onto a small integer grid, on which several resorts
\* are equally far from an origin.
SKI_RESORTS ==
    << SkiResort("Vail", 2, 0, Some(8120), Some("CO")),
       SkiResort("Breckenridge", 0, 2, Some(9600), Some("CO")),
       SkiResort("Keystone", 1, 1, Some(9280), Some("CO")),
       SkiResort("Aspen Mountain", 0, 0, Some(7945), Some("CO")),
       SkiResort("Steamboat", 3, 2, Some(6900), Some("CO")) >>

\* Mutant: an entry added to the table under a name it already holds, in
\* another case.
SKI_RESORT_NAMES_with_duplicate ==
    << "Vail", "Breckenridge", "Keystone", "Aspen Mountain",
       "Steamboat", "Winter Park", "Copper Mountain", "Arapahoe Basin",
       "Loveland", "Telluride", "Park City", "Alta", "Snowbird",
       "Deer Valley", "Brighton", "Solitude", "Snowbasin",
       "Jackson Hole", "Mammoth Mountain", "Palisades Tahoe",
       "Heavenly", "Northstar", "Kirkwood", "Stowe", "Killington",
       "Sugarbush", "Loon Mountain", "Bretton Woods", "Whiteface",
       "Hunter", "Bellayre", "Windham", "Plattekill Mountain",
       "Holiday Mountain", "Catamount", "Butternut", "Camelback",
       "Big Sky", "Sun Valley", "Crystal Mountain", "Stevens Pass",
       "vail" >>

\* The name of every entry of SKI_RESORTS, the whole table in its order.
SKI_RESORT_NAMES ==
    << "Vail", "Breckenridge", "Keystone", "Aspen Mountain",
       "Steamboat", "Winter Park", "Copper Mountain", "Arapahoe Basin",
       "Loveland", "Telluride", "Park City", "Alta", "Snowbird",
       "Deer Valley", "Brighton", "Solitude", "Snowbasin",
       "Jackson Hole", "Mammoth Mountain", "Palisades Tahoe",
       "Heavenly", "Northstar", "Kirkwood", "Stowe", "Killington",
       "Sugarbush", "Loon Mountain", "Bretton Woods", "Whiteface",
       "Hunter", "Bellayre", "Windham", "Plattekill Mountain",
       "Holiday Mountain", "Catamount", "Butternut", "Camelback",
       "Big Sky", "Sun Valley", "Crystal Mountain", "Stevens Pass" >>

Abs(x) == IF x < 0 THEN -x ELSE x

\* geopy's geodesic(a, b).miles, an external library: the model takes the grid
\* distance between the two points.
geodesic_miles(lat1, lon1, lat2, lon2) == Abs(lat1 - lat2) + Abs(lon1 - lon2)

\* Mutant: the caller's point handed over as (lon, lat).
distance_from_swapped(self, lat, lon) ==
    geodesic_miles(self.latitude, self.longitude, lon, lat)

\* SkiResort.distance_from
distance_from(self, lat, lon) ==
    geodesic_miles(self.latitude, self.longitude, lat, lon)

\* Mutant: the boundary left out, `distance < radius_miles`.
within_radius_exclusive(distance, radius) == distance < radius

\* `if distance <= radius_miles`
within_radius(distance, radius) == distance <= radius

\* The loop over SKI_RESORTS appending (resort, distance) pairs.
RECURSIVE NearbyFrom(_, _, _, _, _)
NearbyFrom(acc, i, lat, lon, radius) ==
    IF i > Len(SKI_RESORTS) THEN acc
    ELSE LET r == SKI_RESORTS[i]
             distance == distance_from(r, lat, lon)
         IN  NearbyFrom(IF within_radius(distance, radius)
                        THEN Append(acc, << r, distance >>) ELSE acc,
                        i + 1, lat, lon, radius)

\* One pair put into a list sorted by key x[1] (Python's pair index; the
\* tuple's second component here): after every pair whose key is not larger.
RECURSIVE InsertAfterEqual(_, _)
InsertAfterEqual(sorted, x) ==
    IF sorted = << >> THEN << x >>
    ELSE IF x[2] < Head(sorted)[2] THEN << x >> \o sorted
    ELSE << Head(sorted) >> \o InsertAfterEqual(Tail(sorted), x)

\* The same, before every pair whose key is not smaller.
RECURSIVE InsertBeforeEqual(_, _)
InsertBeforeEqual(sorted, x) ==
    IF sorted = << >> THEN << x >>
    ELSE IF x[2] <= Head(sorted)[2] THEN << x >> \o sorted
    ELSE << Head(sorted) >> \o InsertBeforeEqual(Tail(sorted), x)

RECURSIVE SortFrom(_, _, _)
SortFrom(sorted, pairs, i) ==
    IF i > Len(pairs) THEN sorted
    ELSE SortFrom(InsertAfterEqual(sorted, pairs[i]), pairs, i + 1)

RECURSIVE UnstableSortFrom(_, _, _)
UnstableSortFrom(sorted, pairs, i) ==
    IF i > Len(pairs) THEN sorted
    ELSE UnstableSortFrom(InsertBeforeEqual(sorted, pairs[i]), pairs, i + 1)

\* Mutant: the sort left out.
sort_by_distance_missing(pairs) == pairs

\* Mutant: a sort that is not stable (equal keys come out reversed).
sort_by_distance_unstable(pairs) == UnstableSortFrom(<< >>, pairs, 1)

\* nearby_resorts.sort(key=lambda x: x[1]): list.sort is stable and compares
\* the keys only.
sort_by_distance(pairs) == SortFrom(<< >>, pairs, 1)

\* ResortFinder.find_nearby_resorts
find_nearby_resorts(lat, lon, radius) ==
    LET nearby == sort_by_distance(NearbyFrom(<< >>, 1, lat, lon, radius))
    IN  [k \in 1 .. Len(nearby) |-> nearby[k][1]]

\* A dict with str keys is a function on the set of its keys.
HasKey(d, k) == k \in DOMAIN d

\* dict.get(k): the value, None when the key is absent.
DictGet(d, k) == IF HasKey(d, k) THEN Some(d[k]) ELSE None

\* dict.get(k, default)
DictGetOr(d, k, default) == IF HasKey(d, k) THEN d[k] ELSE default

\* The loop of _find_resort_by_name: the first entry whose lowered name equals
\* the lowered argument.
RECURSIVE FindFrom(_, _)
FindFrom(name_lower, i) ==
    IF i > Len(SKI_RESORTS) THEN None
    ELSE IF str_lower(Chars(SKI_RESORTS[i].name)) = name_lower
         THEN Some(SKI_RESORTS[i])
         ELSE FindFrom(name_lower, i + 1)

\* ResortFinder._find_resort_by_name
find_resort_by_name(name) == FindFrom(str_lower(Chars(name)), 1)

\* ', '.join(r.name for r in SKI_RESORTS)
available_names == [i \in 1 .. Len(SKI_RESORTS) |-> SKI_RESORTS[i].name]

\* Mutant: the new resort put at the front of the list.
list_append_at_front(resorts, r) == << r >> \o resorts

\* resorts.append(resort)
list_append(resorts, r) == Append(resorts, r)

\* `'name' in resort_spec and 'latitude' not in resort_spec`
is_name_lookup(resort_spec) ==
    HasKey(resort_spec, "name") /\ ~HasKey(resort_spec, "latitude")

\* `'name' in resort_spec and 'latitude' in resort_spec and 'longitude' in
\* resort_spec`
is_custom_resort(resort_spec) ==
    /\ HasKey(resort_spec, "name")
    /\ HasKey(resort_spec, "latitude")
    /\ HasKey(resort_spec, "longitude")

\* Mutant: the message without the list of the catalog's names.
not_found_error_bare(resort_name) ==
    [kind |-> "not found in database", resort_name |-> resort_name,
     available |-> << >>]

\* ValueError(f"Resort '{resort_name}' not found in database. Available
\* resorts: {available}"): the message, by its parts.
not_found_error(resort_name) ==
    [kind |-> "not found in database", resort_name |-> resort_name,
     available |-> available_names]

\* ValueError(f"Invalid resort specification: {resort_spec}. Must have ...")
invalid_spec_error(resort_spec) ==
    [kind |-> "Invalid resort specification", resort_spec |-> resort_spec]

\* The loop of get_resorts_from_config; it ends at the first spec that raises.
RECURSIVE ResortsFrom(_, _, _)
ResortsFrom(resorts, resorts_config, i) ==
    IF i > Len(resorts_config)
    THEN [raised |-> "", message |-> None, value |-> Some(resorts)]
    ELSE LET resort_spec == resorts_config[i]
         IN  IF is_name_lookup(resort_spec)
             THEN LET found == find_resort_by_name(resort_spec["name"])
                  IN  IF IsNone(found)
                      THEN [raised |-> "ValueError",
                            message |-> Some(not_found_error(resort_spec["name"])),
                            value |-> None]
                      ELSE ResortsFrom(list_append(resorts, Get(found)),
                                       resorts_config, i + 1)
             ELSE IF is_custom_resort(resort_spec)
             THEN ResortsFrom(
                      list_append(resorts,
                                  SkiResort(resort_spec["name"],
                                            resort_spec["latitude"],
                                            resort_spec["longitude"],
                                            DictGet(resort_spec, "elevation"),
                                            DictGet(resort_spec, "state"))),
                      resorts_config, i + 1)
             ELSE [raised |-> "ValueError",
                   message |-> Some(invalid_spec_error(resort_spec)),
                   value |-> None]

\* ResortFinder.get_resorts_from_config
get_resorts_from_config(resorts_config) == ResortsFrom(<< >>, resorts_config, 1)

\* What the geocoding service does with a query: it finds a place, finds
\* none, or fails (geopy raises one of its own exceptions).
Geocoders ==
    { [outcome |-> "match", latitude |-> 3, longitude |-> 1],
      [outcome |-> "none", latitude |-> 0, longitude |-> 0],
      [outcome |-> "raises", latitude |-> 0, longitude |-> 0] }

\* f"{city}, {state}, {country}" if state else f"{city}, {country}": the
\* parts the query is joined from (an empty state is falsy).
geocode_query(city, state, country) ==
    IF state # "" THEN << city, state, country >> ELSE << city, country >>

\* Mutant: the coordinates of the configuration used only without a city.
has_coordinates_and_no_city(location_config) ==
    /\ HasKey(location_config, "latitude")
    /\ HasKey(location_config, "longitude")
    /\ ~HasKey(location_config, "city")

\* `'latitude' in location_config and 'longitude' in location_config`
has_coordinates(location_config) ==
    HasKey(location_config, "latitude") /\ HasKey(location_config, "longitude")

\* ResortFinder.get_coordinates.  `queries` lists the queries sent to the
\* geocoder.  An exception of the geocoder is not caught here: it leaves the
\* method as it is, with geopy's own message.
get_coordinates(location_config, geocoder) ==
    IF has_coordinates(location_config)
    THEN [raised |-> "", message |-> None, queries |-> << >>,
          value |-> Some(<< location_config["latitude"],
                            location_config["longitude"] >>)]
    ELSE LET city == DictGetOr(location_config, "city", "")
             state == DictGetOr(location_config, "state", "")
             country == DictGetOr(location_config, "country", "US")
             query == geocode_query(city, state, country)
         IN  IF geocoder.outcome = "raises"
             THEN [raised |-> "GeocoderServiceError",
                   message |-> Some([kind |-> "geopy error"]),
                   queries |-> << query >>, value |-> None]
             ELSE IF geocoder.outcome = "none"
             THEN [raised |-> "ValueError",
                   message |-> Some([kind |-> "Could not find coordinates for",
                                     query |-> query]),
                   queries |-> << query >>, value |-> None]
             ELSE [raised |-> "", message |-> None, queries |-> << query >>,
                   value |-> Some(<< geocoder.latitude, geocoder.longitude >>)]

\* `except Exception as e: raise ValueError(f"Geocoding error for zipcode
\* {zipcode}: {e}")`: whatever the try block raised, the ValueError of the
\* block itself included.
zipcode_error(zipcode, raised_in_try, cause) ==
    [raised |-> "ValueError",
     message |-> Some([kind |-> "Geocoding error for zipcode",
                       query |-> zipcode, cause |-> cause])]

\* ResortFinder.get_coordinates_from_zipcode
get_coordinates_from_zipcode(zipcode, geocoder) ==
    IF geocoder.outcome = "raises"
    THEN LET e == zipcode_error(zipcode, "GeocoderServiceError",
                                [kind |-> "geopy error"])
         IN  [raised |-> e.raised, message |-> e.message,
              queries |-> << zipcode >>, value |-> None]
    ELSE IF geocoder.outcome = "none"
    THEN LET e == zipcode_error(zipcode, "ValueError",
                                [kind |-> "Could not geocode zipcode",
                                 query |-> zipcode])
         IN  [raised |-> e.raised, message |-> e.message,
              queries |-> << zipcode >>, value |-> None]
    ELSE [raised |-> "", message |-> None, queries |-> << zipcode >>,
          value |-> Some(<< geocoder.latitude, geocoder.longitude >>)]

\* --------------------------------------------------------------- weather.py

\* What a request to the forecast service comes to: a payload parsed into a
\* forecast list (possibly empty), a requests.RequestException (connection,
\* timeout, HTTP status), or a payload _parse_forecast cannot read (a date
\* that is not %Y-%m-%d raises ValueError in datetime.strptime).
FetchOutcomes ==
    { [raised |-> "", value |-> fs] :
          fs \in { << >>,
                   << [date |-> 0, snowfall_inches |-> 0] >>,
                   << [date |-> 0, snowfall_inches |-> 2] >>,
                   << [date |-> 0, snowfall_inches |-> 1],
                      [date |-> 1, snowfall_inches |-> 2] >> } }
    \cup { [raised |-> "RequestException", value |-> << >>],
           [raised |-> "ValueError", value |-> << >>] }

\* WeatherService.get_forecast: `except requests.RequestException` returns
\* [], any other exception leaves the method.
get_forecast(outcome) ==
    IF outcome.raised = "RequestException"
    THEN [raised |-> "", value |-> << >>]
    ELSE outcome

\* ---------------------------------------------------------------- config.py

\* What an instance of Config has: the attributes __init__ sets, the methods
\* and the properties of the class.
ConfigAttributes ==
    { "config_path", "config", "_load_config", "get", "location",
      "search_radius_miles", "snow_threshold_inches", "forecast_days",
      "notification_method", "check_frequency_hours" }

\* self.config.resorts: reading an attribute the instance does not have
\* raises AttributeError.  The argument is the file's 'resorts' key, None
\* when the file has none.
Config_resorts(resorts_key) ==
    IF "resorts" \in ConfigAttributes
    THEN [raised |-> "", value |-> resorts_key]
    ELSE [raised |-> "AttributeError", value |-> None]

\* -------------------------------------------------------------- notifier.py

\* Python truthiness of what dict.get returns for a str key: None and the
\* empty str are falsy.
TruthyValue(o) == ~IsNone(o) /\ Get(o) # ""

\* The try blocks around the SMTP session and around requests.post: the
\* message is handed over, and a failure is printed, not raised.
deliver(msg, delivery) ==
    [raised |-> "",
     sent |-> << [channel |-> msg.channel, kind |-> msg.kind,
                  events |-> msg.events, delivered |-> delivery = "ok"] >>]

\* Nothing is handed over and nothing is raised.
nothing_sent == [raised |-> "", sent |-> << >>]

\* ConsoleNotification.send: prints only.
console_send(events, config, always_notify) == nothing_sent

\* `not all([smtp_server, from_email, to_email, password])`
email_incomplete(email_config) ==
    \E k \in { "smtp_server", "from_email", "to_email", "password" } :
        ~TruthyValue(DictGet(email_config, k))

\* EmailNotification.send and _send_no_snow_email
email_send(events, config, always_notify, delivery) ==
    LET email_config == DictGetOr(config, "email", << >>)
    IN  IF email_incomplete(email_config) THEN nothing_sent
        ELSE IF events = << >> /\ always_notify
        THEN deliver([channel |-> "email", kind |-> "confirmation", events |-> 0],
                     delivery)
        ELSE IF events = << >> THEN nothing_sent
        ELSE deliver([channel |-> "email", kind |-> "alert",
                      events |-> Len(events)], delivery)

\* The loop that writes the lines of the message: event.start_date.strftime
\* and event.end_date.strftime raise AttributeError on None.
RECURSIVE MessageLinesFrom(_, _)
MessageLinesFrom(events, i) ==
    IF i > Len(events) THEN ""
    ELSE IF IsNone(events[i].start_date) \/ IsNone(events[i].end_date)
         THEN "AttributeError"
         ELSE MessageLinesFrom(events, i + 1)

\* events[:5]
first_five(events) == SubSeq(events, 1, IF Len(events) < 5 THEN Len(events) ELSE 5)

\* The comprehension that builds the attachment fields: event.resort.name +
\* ', ' + event.resort.state raises TypeError on a state that is None.
RECURSIVE FieldsFrom(_, _)
FieldsFrom(events, i) ==
    IF i > Len(events) THEN ""
    ELSE IF IsNone(events[i].resort.state) THEN "TypeError"
    ELSE IF IsNone(events[i].start_date) \/ IsNone(events[i].end_date)
         THEN "AttributeError"
         ELSE FieldsFrom(events, i + 1)

\* `if not events: return`, reached when always_notify is false
webhook_skip(events, always_notify) == events = << >>

\* WebhookNotification.send and _send_no_snow_webhook.  The message is built
\* outside the try block, so what its formatting raises leaves send.
webhook_send(events, config, always_notify, delivery) ==
    LET webhook_config == DictGetOr(config, "webhook", << >>)
        url == DictGet(webhook_config, "url")
    IN  IF ~TruthyValue(url) THEN nothing_sent
        ELSE IF events = << >> /\ always_notify
        THEN deliver([channel |-> "webhook", kind |-> "confirmation", events |-> 0],
                     delivery)
        ELSE IF webhook_skip(events, always_notify) THEN nothing_sent
        ELSE LET lines == MessageLinesFrom(events, 1)
                 fields == FieldsFrom(first_five(events), 1)
             IN  IF lines # "" THEN [raised |-> lines, sent |-> << >>]
                 ELSE IF fields # "" THEN [raised |-> fields, sent |-> << >>]
                 ELSE deliver([channel |-> "webhook", kind |-> "alert",
                               events |-> Len(events)], delivery)

\* NotificationManager.SERVICES
SERVICES == { "console", "email", "webhook" }

\* NotificationManager.__init__: the service of the configured method, the
\* console when there is none or it is unknown.
service_of(notification_config) ==
    LET method == DictGetOr(notification_config, "method", "console")
    IN  IF method \in SERVICES THEN method ELSE "console"

\* NotificationManager.notify
notify(events, notification_config, always_notify, delivery) ==
    LET service == service_of(notification_config)
    IN  IF service = "email"
        THEN email_send(events, notification_config, always_notify, delivery)
        ELSE IF service = "webhook"
        THEN webhook_send(events, notification_config, always_notify, delivery)
        ELSE console_send(events, notification_config, always_notify)

\* ------------------------------------------------------------------ main.py

\* Python truthiness of an optional list and of an optional str: None and
\* the empty value are falsy.
TruthyList(o) == ~IsNone(o) /\ Get(o) # << >>
TruthyStr(o) == ~IsNone(o) /\ Get(o) # ""

\* manual_resorts = [{'name': name} for name in self.cli_resorts]
manual_resorts_of(names) == [i \in 1 .. Len(names) |-> [name |-> names[i]]]

\* Mutant: every fetched list is stored, the empty ones too.
keep_forecasts_always(fs) == TRUE

\* `if forecasts:`
keep_forecasts(fs) == fs # << >>

\* The place of a key in a dict, 0 when it is not a key.
DictIndex(d, k) ==
    IF \E i \in 1 .. Len(d) : d[i][1] = k
    THEN CHOOSE i \in 1 .. Len(d) : d[i][1] = k
    ELSE 0

\* d[k] = v: a key the dict holds keeps its place and gets the new value, a
\* new key goes last.
DictSet(d, k, v) ==
    IF DictIndex(d, k) = 0 THEN Append(d, << k, v >>)
    ELSE [d EXCEPT ![DictIndex(d, k)] = << k, v >>]

\* ------------------------------------------------------------------- state

VARIABLES
    pc,                 \* "ready": the call is to be made; "done": it ended
    raised,             \* the exception the call ended with, "" for none
    threshold_inches,   \* SnowAnalyzer.threshold_inches
    resort,             \* analyze_forecast's argument
    forecasts,          \* analyze_forecast's argument
    event,              \* analyze_forecast's return value
    latitude,           \* find_nearby_resorts' argument
    longitude,          \* find_nearby_resorts' argument
    radius_miles,       \* find_nearby_resorts' argument
    nearby_resorts,     \* find_nearby_resorts' return value
    resort_forecasts,   \* find_significant_events' argument
    events,             \* find_significant_events' return value
    call,               \* the ResortFinder method the run calls
    resorts_config,     \* get_resorts_from_config's argument
    resorts,            \* get_resorts_from_config's return value
    name,               \* _find_resort_by_name's argument
    found,              \* _find_resort_by_name's return value
    location_config,    \* get_coordinates' argument
    zipcode,            \* get_coordinates_from_zipcode's argument
    geocoder,           \* what the geocoding service does when it is asked
    geocode_queries,    \* the queries sent to the geocoding service
    coordinates,        \* get_coordinates[_from_zipcode]'s return value
    message,            \* the message of the exception raised, if any
    cli_resorts,        \* PowdertimeApp.cli_resorts
    cli_zipcode,        \* PowdertimeApp.cli_zipcode
    fetched,            \* the outcome of the request for each resort so far
    notified,           \* the events handed to the notification manager
    return_code,        \* what run returned
    config_resorts,     \* the 'resorts' key of the configuration file
    trace,              \* the calls run has made to its collaborators
    notifications,      \* the 'notifications' section of the configuration
    always_notify,      \* the --always-notify flag
    delivery,           \* what the mail server or the webhook URL will do
    sent,               \* the messages handed to the mail server or the URL
    point_a,            \* the coordinates of a resort
    point_b,            \* the coordinates of another place
    distance_ab,        \* the distance of b from the resort at a
    distance_ba,        \* the distance of a from a resort at b
    catalog,            \* the list object SKI_RESORTS, shared by all threads
    threads             \* the call each thread is in: its arguments and locals

analyzerVars == << threshold_inches, resort, forecasts, event >>
finderVars == << latitude, longitude, radius_miles, nearby_resorts >>
eventsVars == << resort_forecasts, events >>
resolveVars == << call, resorts_config, resorts, name, found, location_config,
                 zipcode, geocoder, geocode_queries, coordinates, message >>
runVars == << cli_resorts, cli_zipcode, fetched, notified, return_code,
             config_resorts, trace >>
notifyVars == << notifications, always_notify, delivery, sent >>
distanceVars == << point_a, point_b, distance_ab, distance_ba >>
sharedVars == << catalog, threads >>
vars == << pc, raised, analyzerVars, finderVars, eventsVars, resolveVars, runVars,
           notifyVars, distanceVars, sharedVars >>

\* No analyzer call is part of the run.
AnalyzerIdle ==
    /\ threshold_inches = 0
    /\ resort = "Vail"
    /\ forecasts = << >>
    /\ event = None

\* No finder call is part of the run.
FinderIdle ==
    /\ latitude = 0
    /\ longitude = 0
    /\ radius_miles = 0
    /\ nearby_resorts = << >>

\* No find_significant_events call is part of the run.
EventsIdle ==
    /\ resort_forecasts = << >>
    /\ events = << >>

\* The arguments and results of the ResortFinder calls that are not part of
\* the run.
NoManualList == resorts_config = << >> /\ resorts = None
NoLookup == name = "" /\ found = None
NoLocation ==
    /\ location_config = << >>
    /\ zipcode = ""
    /\ geocoder = [outcome |-> "none", latitude |-> 0, longitude |-> 0]
    /\ geocode_queries = << >>
    /\ coordinates = None

\* No get_resorts_from_config, lookup or geocoding call is part of the run.
ResolveIdle ==
    /\ call = ""
    /\ NoManualList
    /\ NoLookup
    /\ NoLocation
    /\ message = None

\* No run of the application is under way.
RunIdle ==
    /\ cli_resorts = None
    /\ cli_zipcode = None
    /\ fetched = << >>
    /\ notified = None
    /\ return_code = None
    /\ config_resorts = None
    /\ trace = << >>

\* No notification is part of the run.
NotifyIdle ==
    /\ notifications = [method |-> "console"]
    /\ always_notify = FALSE
    /\ delivery = "ok"
    /\ sent = << >>

\* No distance is measured in the run.
DistanceIdle ==
    /\ point_a = << 0, 0 >>
    /\ point_b = << 0, 0 >>
    /\ distance_ab = None
    /\ distance_ba = None

\* No threads share the catalog in the run.
SharedIdle ==
    /\ catalog = SKI_RESORTS
    /\ threads = << >>

\* The resorts handed to the analyzer (only passed through to the event).
AnalyzedResorts == { "Vail", "Alta" }

\* A SnowAnalyzer constructed with some threshold, and the arguments of a call.
InitAnalyzer ==
    /\ threshold_inches \in Thresholds
    /\ resort \in AnalyzedResorts
    /\ forecasts \in ForecastLists
    /\ pc = "ready"
    /\ raised = ""
    /\ event = None
    /\ FinderIdle
    /\ EventsIdle
    /\ ResolveIdle
    /\ RunIdle
    /\ NotifyIdle
    /\ DistanceIdle
    /\ SharedIdle

\* event = self.analyze_forecast(resort, forecasts)
AnalyzeForecast ==
    /\ pc = "ready"
    /\ LET r == analyze_forecast(threshold_inches, resort, forecasts)
       IN  /\ raised' = r.raised
           /\ event' = r.value
    /\ pc' = "done"
    /\ UNCHANGED << threshold_inches, resort, forecasts, finderVars, eventsVars,
                    resolveVars,
                    runVars, notifyVars, distanceVars, sharedVars >>

NextAnalyzer == AnalyzeForecast

SpecAnalyzer == InitAnalyzer /\ [][NextAnalyzer]_vars

Coords == 0 .. MaxCoord
Radii == 0 .. MaxRadius

\* A ResortFinder, and the arguments of a find_nearby_resorts call.
InitFinder ==
    /\ latitude \in Coords
    /\ longitude \in Coords
    /\ radius_miles \in Radii
    /\ nearby_resorts = << >>
    /\ pc = "ready"
    /\ raised = ""
    /\ AnalyzerIdle
    /\ EventsIdle
    /\ ResolveIdle
    /\ RunIdle
    /\ NotifyIdle
    /\ DistanceIdle
    /\ SharedIdle

\* nearby_resorts = self.resort_finder.find_nearby_resorts(lat, lon, radius)
FindNearbyResorts ==
    /\ pc = "ready"
    /\ nearby_resorts' = find_nearby_resorts(latitude, longitude, radius_miles)
    /\ pc' = "done"
    /\ UNCHANGED << raised, latitude, longitude, radius_miles, analyzerVars,
                    eventsVars, resolveVars,
                    runVars, notifyVars, distanceVars, sharedVars >>

NextFinder == FindNearbyResorts

SpecFinder == InitFinder /\ [][NextFinder]_vars

\* Two places on the grid, a resort at each.
InitDistance ==
    /\ pc = "ready"
    /\ raised = ""
    /\ point_a \in Coords \X Coords
    /\ point_b \in Coords \X Coords
    /\ distance_ab = None
    /\ distance_ba = None
    /\ AnalyzerIdle
    /\ FinderIdle
    /\ EventsIdle
    /\ ResolveIdle
    /\ RunIdle
    /\ NotifyIdle
    /\ SharedIdle

\* distance = resort.distance_from(lat, lon), from the resort at a to b and
\* from the resort at b to a.
DistanceFrom ==
    /\ pc = "ready"
    /\ LET resort_a == SkiResort("A", point_a[1], point_a[2], None, None)
           resort_b == SkiResort("B", point_b[1], point_b[2], None, None)
       IN  /\ distance_ab' = Some(distance_from(resort_a, point_b[1], point_b[2]))
           /\ distance_ba' = Some(distance_from(resort_b, point_a[1], point_a[2]))
    /\ pc' = "done"
    /\ UNCHANGED << raised, point_a, point_b, analyzerVars, finderVars,
                    eventsVars, resolveVars, runVars, notifyVars, sharedVars >>

NextDistance == DistanceFrom

SpecDistance == InitDistance /\ [][NextDistance]_vars

\* The forecast sequences a mapping can hold for one resort: day k carries
\* date k.
RECURSIVE MapForecastsOfLen(_)
MapForecastsOfLen(n) ==
    IF n = 0 THEN { << >> }
    ELSE { Append(fs, [date |-> n, snowfall_inches |-> x]) :
               fs \in MapForecastsOfLen(n - 1), x \in 0 .. MaxSnow }

MapForecasts == UNION { MapForecastsOfLen(n) : n \in 0 .. MaxMapDays }

\* The resorts that can be keys of a mapping.
MapResorts == { SKI_RESORTS[1], SKI_RESORTS[2], SKI_RESORTS[3] }

\* A SnowAnalyzer, and the caller's mapping before it holds any entry.
InitEvents ==
    /\ threshold_inches \in Thresholds
    /\ resort_forecasts = << >>
    /\ events = << >>
    /\ resort = "Vail"
    /\ forecasts = << >>
    /\ event = None
    /\ pc = "ready"
    /\ raised = ""
    /\ FinderIdle
    /\ ResolveIdle
    /\ RunIdle
    /\ NotifyIdle
    /\ DistanceIdle
    /\ SharedIdle

\* resort_forecasts[resort] = forecasts, for a resort that is not a key yet:
\* the caller builds the mapping it is going to pass.
PutForecasts ==
    /\ pc = "ready"
    /\ \E k \in MapResorts, fs \in MapForecasts :
           /\ \A i \in 1 .. Len(resort_forecasts) : resort_forecasts[i][1] # k
           /\ resort_forecasts' = Append(resort_forecasts, << k, fs >>)
    /\ UNCHANGED << pc, raised, analyzerVars, finderVars, events, resolveVars,
                    runVars, notifyVars, distanceVars, sharedVars >>

\* events = self.snow_analyzer.find_significant_events(resort_forecasts)
FindSignificantEvents ==
    /\ pc = "ready"
    /\ LET r == find_significant_events(threshold_inches, resort_forecasts)
       IN  /\ raised' = r.raised
           /\ events' = r.value
    /\ pc' = "done"
    /\ UNCHANGED << threshold_inches, resort, forecasts, event, resort_forecasts,
                    finderVars, resolveVars,
                    runVars, notifyVars, distanceVars, sharedVars >>

NextEvents == PutForecasts \/ FindSignificantEvents

SpecEvents == InitEvents /\ [][NextEvents]_vars

\* The values a manual resort spec gives its keys.
SpecNames == { "Vail", "breckenridge", "Nonexistent", "My Hill" }

SpecValue(k, n) ==
    CASE k = "name" -> n
      [] k = "latitude" -> 1
      [] k = "longitude" -> 2
      [] k = "elevation" -> 2000
      [] k = "state" -> "NY"

\* Every spec over the keys name, latitude and longitude, each present or
\* not, without further keys or with an elevation and a state.
ResortSpecs ==
    { [k \in base \cup extra |-> SpecValue(k, n)] :
          base \in SUBSET { "name", "latitude", "longitude" },
          extra \in { {}, { "elevation", "state" } },
          n \in SpecNames }

\* The names handed to _find_resort_by_name: every str Chars spells.
QueryNames ==
    { SKI_RESORT_NAMES[i] : i \in 1 .. Len(SKI_RESORT_NAMES) } \cup
    { "vail", "VAIL", "vAiL", "breckenridge", "KEYSTONE", "aspen mountain",
      "Vale", "Vai", "Nonexistent", "My Hill" }

LocationValue(k, st) ==
    CASE k = "latitude" -> 1
      [] k = "longitude" -> 2
      [] k = "city" -> "Denver"
      [] k = "state" -> st
      [] k = "country" -> "CA"

\* Every location configuration over the keys latitude, longitude, city,
\* state and country, each present or not; a state can be the empty str.
LocationConfigs ==
    { [k \in keys |-> LocationValue(k, st)] :
          keys \in SUBSET { "latitude", "longitude", "city", "state", "country" },
          st \in { "CO", "" } }

Zipcodes == { "80202", "10001" }

\* A ResortFinder and the arguments of one call of one of its methods.
InitResolve ==
    /\ pc = "ready"
    /\ raised = ""
    /\ message = None
    /\ resorts = None
    /\ found = None
    /\ geocode_queries = << >>
    /\ coordinates = None
    /\ AnalyzerIdle
    /\ FinderIdle
    /\ EventsIdle
    /\ RunIdle
    /\ NotifyIdle
    /\ DistanceIdle
    /\ SharedIdle
    /\ \/ /\ call = "get_resorts_from_config"
          /\ resorts_config \in SeqsUpTo(ResortSpecs, MaxSpecs)
          /\ name = ""
          /\ location_config = << >>
          /\ zipcode = ""
          /\ geocoder = [outcome |-> "none", latitude |-> 0, longitude |-> 0]
       \/ /\ call = "_find_resort_by_name"
          /\ name \in QueryNames
          /\ resorts_config = << >>
          /\ location_config = << >>
          /\ zipcode = ""
          /\ geocoder = [outcome |-> "none", latitude |-> 0, longitude |-> 0]
       \/ /\ call = "get_coordinates"
          /\ location_config \in LocationConfigs
          /\ geocoder \in Geocoders
          /\ resorts_config = << >>
          /\ name = ""
          /\ zipcode = ""
       \/ /\ call = "get_coordinates_from_zipcode"
          /\ zipcode \in Zipcodes
          /\ geocoder \in Geocoders
          /\ resorts_config = << >>
          /\ name = ""
          /\ location_config = << >>

\* nearby_resorts = self.resort_finder.get_resorts_from_config(...)
GetResortsFromConfig ==
    /\ pc = "ready"
    /\ call = "get_resorts_from_config"
    /\ LET r == get_resorts_from_config(resorts_config)
       IN  /\ raised' = r.raised
           /\ message' = r.message
           /\ resorts' = r.value
    /\ pc' = "done"
    /\ UNCHANGED << call, resorts_config, name, found, location_config, zipcode,
                    geocoder, geocode_queries, coordinates,
                    analyzerVars, finderVars, eventsVars,
                    runVars, notifyVars, distanceVars, sharedVars >>

\* resort = self._find_resort_by_name(resort_name)
FindResortByName ==
    /\ pc = "ready"
    /\ call = "_find_resort_by_name"
    /\ found' = find_resort_by_name(name)
    /\ pc' = "done"
    /\ UNCHANGED << raised, call, resorts_config, resorts, name, location_config,
                    zipcode, geocoder, geocode_queries, coordinates, message,
                    analyzerVars, finderVars, eventsVars,
                    runVars, notifyVars, distanceVars, sharedVars >>

\* lat, lon = self.resort_finder.get_coordinates(self.config.location)
GetCoordinates ==
    /\ pc = "ready"
    /\ call = "get_coordinates"
    /\ LET r == get_coordinates(location_config, geocoder)
       IN  /\ raised' = r.raised
           /\ message' = r.message
           /\ geocode_queries' = r.queries
           /\ coordinates' = r.value
    /\ pc' = "done"
    /\ UNCHANGED << call, resorts_config, resorts, name, found, location_config,
                    zipcode, geocoder, analyzerVars, finderVars, eventsVars,
                    runVars, notifyVars, distanceVars, sharedVars >>

\* lat, lon = self.resort_finder.get_coordinates_from_zipcode(self.cli_zipcode)
GetCoordinatesFromZipcode ==
    /\ pc = "ready"
    /\ call = "get_coordinates_from_zipcode"
    /\ LET r == get_coordinates_from_zipcode(zipcode, geocoder)
       IN  /\ raised' = r.raised
           /\ message' = r.message
           /\ geocode_queries' = r.queries
           /\ coordinates' = r.value
    /\ pc' = "done"
    /\ UNCHANGED << call, resorts_config, resorts, name, found, location_config,
                    zipcode, geocoder, analyzerVars, finderVars, eventsVars,
                    runVars, notifyVars, distanceVars, sharedVars >>

NextResolve ==
    \/ GetResortsFromConfig
    \/ FindResortByName
    \/ GetCoordinates
    \/ GetCoordinatesFromZipcode

SpecResolve == InitResolve /\ [][NextResolve]_vars

\* The resorts of the events handed to a notifier: a catalog resort, and the
\* custom resorts get_resorts_from_config makes of a spec with and without a
\* state.
NotifyResorts ==
    { SKI_RESORTS[1] } \cup
    { Get(get_resorts_from_config(<< spec >>).value)[1] :
          spec \in { [name |-> "My Hill", latitude |-> 1, longitude |-> 2],
                     [name |-> "My Hill", latitude |-> 1, longitude |-> 2,
                      elevation |-> 2000, state |-> "NY"] } }

\* The forecasts of those resorts: a day without snow, or two days of snow.
NotifyForecasts ==
    { << [date |-> 0, snowfall_inches |-> 0] >>,
      << [date |-> 0, snowfall_inches |-> 1], [date |-> 1, snowfall_inches |-> 2] >> }

\* The mappings of up to two of those resorts.
NotifyMappings ==
    { << >> } \cup
    { << << r, fs >> >> : r \in NotifyResorts, fs \in NotifyForecasts } \cup
    { m \in { << << r1, fs1 >>, << r2, fs2 >> >> :
                  r1 \in NotifyResorts, r2 \in NotifyResorts,
                  fs1 \in NotifyForecasts, fs2 \in NotifyForecasts } :
          m[1][1] # m[2][1] }

\* The event lists find_significant_events makes of them under a threshold
\* of 0 (a day without snow is an event then) or 1.
NotifyEvents ==
    { find_significant_events(th, m).value : th \in { 0, 1 }, m \in NotifyMappings }

\* The 'notifications' section of the configuration file: no method, an
\* unknown one, the console, and each channel with a complete and with an
\* incomplete configuration.
NotificationConfigs ==
    { << >>,
      [method |-> "sms"],
      [method |-> "console"],
      [method |-> "email",
       email |-> [smtp_server |-> "smtp.example.com", from_email |-> "from@example.com",
                  to_email |-> "to@example.com", password |-> "secret"]],
      [method |-> "email",
       email |-> [smtp_server |-> "smtp.example.com", from_email |-> "from@example.com",
                  to_email |-> "to@example.com", password |-> ""]],
      [method |-> "email",
       email |-> [smtp_server |-> "smtp.example.com", to_email |-> "to@example.com",
                  password |-> "secret"]],
      [method |-> "email"],
      [method |-> "webhook", webhook |-> [url |-> "https://hooks.example.com/x"]],
      [method |-> "webhook", webhook |-> [url |-> ""]],
      [method |-> "webhook"] }

\* A NotificationManager, the arguments of one notify call, and what the mail
\* server or the URL will do with a message.
InitNotify ==
    /\ pc = "ready"
    /\ raised = ""
    /\ call = "notify"
    /\ events \in NotifyEvents
    /\ notifications \in NotificationConfigs
    /\ always_notify \in BOOLEAN
    /\ delivery \in { "ok", "fails" }
    /\ sent = << >>
    /\ resort_forecasts = << >>
    /\ NoManualList
    /\ NoLookup
    /\ NoLocation
    /\ message = None
    /\ AnalyzerIdle
    /\ FinderIdle
    /\ RunIdle
    /\ DistanceIdle
    /\ SharedIdle

\* self.notification_manager.notify(events, always_notify=...)
Notify ==
    /\ pc = "ready"
    /\ call = "notify"
    /\ LET r == notify(events, notifications, always_notify, delivery)
       IN  /\ raised' = r.raised
           /\ sent' = r.sent
    /\ pc' = "done"
    /\ UNCHANGED << notifications, always_notify, delivery, analyzerVars,
                    finderVars, eventsVars, resolveVars, runVars, distanceVars,
                    sharedVars >>

NextNotify == Notify

SpecNotify == InitNotify /\ [][NextNotify]_vars

\* ------------------------------------ the core called from several threads

\* The threads that call the core on one ResortFinder and one SnowAnalyzer.
Threads == { 1, 2 }

\* A thread outside any call.
IdleThread == [op |-> "idle", arg |-> << >>, i |-> 0, acc |-> << >>, result |-> None]

\* A thread at the start of a call: its loop at the first element, its own
\* list newly made (`nearby_resorts = []`, `resorts = []`, `events = []`).
Entered(op, arg) == [op |-> op, arg |-> arg, i |-> 1, acc |-> << >>, result |-> None]

\* A thread after `return value`.
Left(th, value) == [th EXCEPT !.result = Some(value)]

\* The arguments the threads call with.  analyze_forecast gets the shared
\* forecast list and find_significant_events the shared mapping.
ThreadCalls ==
    { Entered("find_nearby_resorts", arg) : arg \in { << 1, 1, 2 >>, << 3, 1, 1 >> } }
    \cup { Entered("find_resort_by_name", << n >>) : n \in { "KEYSTONE", "Nonexistent" } }
    \cup { Entered("get_resorts_from_config", << c >>) :
               c \in { << [name |-> "My Hill", latitude |-> 1, longitude |-> 2],
                          [name |-> "Keystone"] >>,
                       << [name |-> "Vail"], [name |-> "Nonexistent"] >> } }
    \cup { Entered("analyze_forecast", << SKI_RESORTS[1] >>) }
    \cup { Entered("find_significant_events", << >>) }

\* The forecast list and the mapping the callers share.
SharedForecasts ==
    << [date |-> 1, snowfall_inches |-> 0], [date |-> 2, snowfall_inches |-> 1] >>
SharedMapping ==
    << << SKI_RESORTS[1], SharedForecasts >>,
       << SKI_RESORTS[3], << [date |-> 1, snowfall_inches |-> 2] >> >> >>

\* The process after the imports and the construction of one ResortFinder
\* and one SnowAnalyzer: the catalog as declared, no thread in a call.
InitShared ==
    /\ pc = "ready"
    /\ raised = ""
    /\ catalog = SKI_RESORTS
    /\ threads = [t \in Threads |-> IdleThread]
    /\ threshold_inches \in { 1, 2 }
    /\ forecasts = SharedForecasts
    /\ resort_forecasts = SharedMapping
    /\ resort = "Vail"
    /\ event = None
    /\ events = << >>
    /\ FinderIdle
    /\ ResolveIdle
    /\ RunIdle
    /\ NotifyIdle
    /\ DistanceIdle

\* What the threads never touch.
sharedFrame ==
    << pc, raised, resort, event, events, finderVars, resolveVars, runVars,
       notifyVars, distanceVars >>

\* Mutant: find_nearby_resorts sorts the catalog itself.
RECURSIVE CatalogSortedFrom(_, _, _, _)
CatalogSortedFrom(cat, th, i, pairs) ==
    IF i > Len(cat)
    THEN LET sorted == sort_by_distance(pairs)
         IN  [k \in 1 .. Len(sorted) |-> sorted[k][1]]
    ELSE CatalogSortedFrom(cat, th, i + 1,
             Append(pairs, << cat[i], distance_from(cat[i], th.arg[1], th.arg[2]) >>))

catalog_after_sorted_in_place(cat, th) ==
    IF th.op = "find_nearby_resorts" THEN CatalogSortedFrom(cat, th, 1, << >>) ELSE cat

\* What a step of a call leaves in SKI_RESORTS: the lists the operations
\* append to and sort are the ones they made themselves, a SkiResort is
\* only read, so the catalog list and its entries stay as they were.
catalog_after(cat, th) == cat

\* A thread enters one of the five operations.
CallOperation(t) ==
    /\ threads[t].op = "idle" \/ ~IsNone(threads[t].result)
    /\ \E c \in ThreadCalls : threads' = [threads EXCEPT ![t] = c]
    /\ UNCHANGED << catalog, threshold_inches, forecasts, resort_forecasts,
                    sharedFrame >>

\* One round of `for resort in SKI_RESORTS` in find_nearby_resorts.
FindNearbyStep(t) ==
    LET th == threads[t]
    IN  /\ th.op = "find_nearby_resorts"
        /\ IsNone(th.result)
        /\ th.i <= Len(catalog)
        /\ LET r == catalog[th.i]
               distance == distance_from(r, th.arg[1], th.arg[2])
           IN  threads' = [threads EXCEPT ![t] =
                   [th EXCEPT !.i = th.i + 1,
                              !.acc = IF within_radius(distance, th.arg[3])
                                      THEN Append(th.acc, << r, distance >>)
                                      ELSE th.acc]]
        /\ catalog' = catalog_after(catalog, th)
        /\ UNCHANGED << threshold_inches, forecasts, resort_forecasts, sharedFrame >>

\* The end of find_nearby_resorts: its list is sorted and the resorts are
\* returned.
FindNearbyReturn(t) ==
    LET th == threads[t]
    IN  /\ th.op = "find_nearby_resorts"
        /\ IsNone(th.result)
        /\ th.i > Len(catalog)
        /\ LET nearby == sort_by_distance(th.acc)
           IN  threads' = [threads EXCEPT ![t] =
                   Left([th EXCEPT !.acc = nearby],
                        [k \in 1 .. Len(nearby) |-> nearby[k][1]])]
        /\ catalog' = catalog_after(catalog, th)
        /\ UNCHANGED << threshold_inches, forecasts, resort_forecasts, sharedFrame >>

\* One round of the loop of _find_resort_by_name, or its end.
FindByNameStep(t) ==
    LET th == threads[t]
    IN  /\ th.op = "find_resort_by_name"
        /\ IsNone(th.result)
        /\ threads' = [threads EXCEPT ![t] =
               IF th.i > Len(catalog) THEN Left(th, None)
               ELSE IF str_lower(Chars(catalog[th.i].name)) = str_lower(Chars(th.arg[1]))
               THEN Left(th, Some(catalog[th.i]))
               ELSE [th EXCEPT !.i = th.i + 1]]
        /\ catalog' = catalog_after(catalog, th)
        /\ UNCHANGED << threshold_inches, forecasts, resort_forecasts, sharedFrame >>

\* _find_resort_by_name over the catalog as it is now.
RECURSIVE FindIn(_, _, _)
FindIn(cat, name_lower, i) ==
    IF i > Len(cat) THEN None
    ELSE IF str_lower(Chars(cat[i].name)) = name_lower THEN Some(cat[i])
    ELSE FindIn(cat, name_lower, i + 1)

\* One round of `for resort_spec in resorts_config` in
\* get_resorts_from_config, or its end.
ResortsFromConfigStep(t) ==
    LET th == threads[t]
        resorts_config_arg == th.arg[1]
    IN  /\ th.op = "get_resorts_from_config"
        /\ IsNone(th.result)
        /\ threads' = [threads EXCEPT ![t] =
               IF th.i > Len(resorts_config_arg)
               THEN Left(th, [raised |-> "", message |-> None, value |-> Some(th.acc)])
               ELSE LET resort_spec == resorts_config_arg[th.i]
                    IN  IF is_name_lookup(resort_spec)
                        THEN LET r == FindIn(catalog,
                                             str_lower(Chars(resort_spec["name"])), 1)
                             IN  IF IsNone(r)
                                 THEN Left(th,
                                          [raised |-> "ValueError",
                                           message |-> Some(
                                               [kind |-> "not found in database",
                                                resort_name |-> resort_spec["name"],
                                                available |->
                                                    [k \in 1 .. Len(catalog) |->
                                                         catalog[k].name]]),
                                           value |-> None])
                                 ELSE [th EXCEPT !.i = th.i + 1,
                                                 !.acc = list_append(th.acc, Get(r))]
                        ELSE IF is_custom_resort(resort_spec)
                        THEN [th EXCEPT !.i = th.i + 1,
                                        !.acc = list_append(th.acc,
                                            SkiResort(resort_spec["name"],
                                                      resort_spec["latitude"],
                                                      resort_spec["longitude"],
                                                      DictGet(resort_spec, "elevation"),
                                                      DictGet(resort_spec, "state")))]
                        ELSE Left(th, [raised |-> "ValueError",
                                       message |-> Some(invalid_spec_error(resort_spec)),
                                       value |-> None])]
        /\ catalog' = catalog_after(catalog, th)
        /\ UNCHANGED << threshold_inches, forecasts, resort_forecasts, sharedFrame >>

\* analyze_forecast on the shared forecast list, under the analyzer's
\* threshold.
AnalyzeShared(t) ==
    LET th == threads[t]
    IN  /\ th.op = "analyze_forecast"
        /\ IsNone(th.result)
        /\ threads' = [threads EXCEPT ![t] =
               Left(th, analyze_forecast(threshold_inches, th.arg[1], forecasts))]
        /\ catalog' = catalog_after(catalog, th)
        /\ UNCHANGED << threshold_inches, forecasts, resort_forecasts, sharedFrame >>

\* One round of `for resort, forecasts in resort_forecasts.items()` in
\* find_significant_events on the shared mapping.
SignificantEventsStep(t) ==
    LET th == threads[t]
    IN  /\ th.op = "find_significant_events"
        /\ IsNone(th.result)
        /\ th.i <= Len(resort_forecasts)
        /\ LET r == analyze_forecast(threshold_inches, resort_forecasts[th.i][1],
                                     resort_forecasts[th.i][2])
           IN  threads' = [threads EXCEPT ![t] =
                   IF r.raised # "" THEN Left(th, [raised |-> r.raised, value |-> << >>])
                   ELSE [th EXCEPT !.i = th.i + 1,
                                   !.acc = IF IsNone(r.value) THEN th.acc
                                           ELSE Append(th.acc, Get(r.value))]]
        /\ catalog' = catalog_after(catalog, th)
        /\ UNCHANGED << threshold_inches, forecasts, resort_forecasts, sharedFrame >>

\* The end of find_significant_events: its list is sorted and returned.
SignificantEventsReturn(t) ==
    LET th == threads[t]
    IN  /\ th.op = "find_significant_events"
        /\ IsNone(th.result)
        /\ th.i > Len(resort_forecasts)
        /\ threads' = [threads EXCEPT ![t] =
               Left([th EXCEPT !.acc = sort_by_total(th.acc)],
                    [raised |-> "", value |-> sort_by_total(th.acc)])]
        /\ catalog' = catalog_after(catalog, th)
        /\ UNCHANGED << threshold_inches, forecasts, resort_forecasts, sharedFrame >>

NextShared ==
    \E t \in Threads :
        \/ CallOperation(t)
        \/ FindNearbyStep(t)
        \/ FindNearbyReturn(t)
        \/ FindByNameStep(t)
        \/ ResortsFromConfigStep(t)
        \/ AnalyzeShared(t)
        \/ SignificantEventsStep(t)
        \/ SignificantEventsReturn(t)

SpecShared == InitShared /\ [][NextShared]_vars

\* The resort lists given on the command line with -r.
CliResortLists ==
    { << "Vail" >>, << "Nonexistent" >>, << "KEYSTONE", "Vail" >>,
      << "Vail", "Vail" >>, << "Vail", "Nonexistent" >> }

\* A 'resorts' key of the configuration file.
ConfigResortLists ==
    { << [name |-> "Vail"], [name |-> "My Hill", latitude |-> 1, longitude |-> 2] >> }

\* The search radius and the threshold of the configuration file.
RunRadii == { 0, 1, 2 }
RunThresholds == { 0, 1 }

\* The 'notifications' section, the --always-notify flag and what the mail
\* server or the URL does with a message.
RunNotifySettings ==
    { [notifications |-> [method |-> "console"],
       always_notify |-> FALSE, delivery |-> "ok"],
      [notifications |-> [method |-> "webhook",
                          webhook |-> [url |-> "https://hooks.example.com/x"]],
       always_notify |-> FALSE, delivery |-> "ok"],
      [notifications |-> [method |-> "webhook",
                          webhook |-> [url |-> "https://hooks.example.com/x"]],
       always_notify |-> TRUE, delivery |-> "fails"],
      [notifications |-> [method |-> "email",
                          email |-> [smtp_server |-> "smtp.example.com",
                                     from_email |-> "from@example.com",
                                     to_email |-> "to@example.com",
                                     password |-> "secret"]],
       always_notify |-> TRUE, delivery |-> "ok"] }

\* A PowdertimeApp after __init__: the command-line arguments, the values of
\* the configuration file, and what the geocoder will do.  A resort list on
\* the command line comes first, then a zipcode, then the configuration.
InitRun ==
    /\ pc = "ready"
    /\ raised = ""
    /\ call = "run"
    /\ resort = "Vail"
    /\ forecasts = << >>
    /\ event = None
    /\ EventsIdle
    /\ NoManualList
    /\ NoLookup
    /\ zipcode = ""
    /\ geocode_queries = << >>
    /\ coordinates = None
    /\ message = None
    /\ latitude = 0
    /\ longitude = 0
    /\ nearby_resorts = << >>
    /\ fetched = << >>
    /\ notified = None
    /\ return_code = None
    /\ trace = << >>
    /\ sent = << >>
    /\ DistanceIdle
    /\ SharedIdle
    /\ threshold_inches \in RunThresholds
    /\ \E settings \in RunNotifySettings :
           /\ notifications = settings.notifications
           /\ always_notify = settings.always_notify
           /\ delivery = settings.delivery
    /\ \/ /\ cli_resorts \in { Some(ns) : ns \in CliResortLists }
          /\ cli_zipcode \in { None, Some("80202") }
          /\ config_resorts \in { None } \cup { Some(l) : l \in ConfigResortLists }
          /\ location_config = [city |-> "Denver", state |-> "CO"]
          /\ radius_miles = 2
          /\ geocoder = [outcome |-> "match", latitude |-> 3, longitude |-> 1]
       \/ /\ cli_resorts = None
          /\ cli_zipcode = Some("80202")
          /\ config_resorts \in { None } \cup { Some(l) : l \in ConfigResortLists }
          /\ location_config = [city |-> "Denver", state |-> "CO"]
          /\ radius_miles \in RunRadii
          /\ geocoder \in Geocoders
       \/ /\ cli_resorts \in { None, Some(<< >>) }
          /\ cli_zipcode \in { None, Some("") }
          /\ config_resorts \in { None, Some(<< >>) } \cup { Some(l) : l \in ConfigResortLists }
          /\ location_config \in { [latitude |-> 1, longitude |-> 2],
                                   [city |-> "Denver", state |-> "CO"] }
          /\ radius_miles = 2
          /\ geocoder \in Geocoders

\* run returns 1 after printing an error.
ReturnError(msg) ==
    /\ message' = msg
    /\ return_code' = Some(1)
    /\ pc' = "returned"

\* One call of run to a collaborator; a forecast request names its resort.
Called(op) == [op |-> op, resort |-> ""]

\* The candidate resorts are a manual list: the specs are resolved, and a
\* ValueError is printed and makes run return 1.
UseManualList(manual_resorts) ==
    LET r == get_resorts_from_config(manual_resorts)
    IN  /\ resorts_config' = manual_resorts
        /\ resorts' = r.value
        /\ trace' = Append(trace, Called("get_resorts_from_config"))
        /\ IF r.raised = "ValueError"
           THEN ReturnError(r.message) /\ UNCHANGED nearby_resorts
           ELSE /\ nearby_resorts' = Get(r.value)
                /\ pc' = "fetch"
                /\ UNCHANGED << message, return_code >>
        /\ UNCHANGED << raised, zipcode, geocode_queries, coordinates,
                        latitude, longitude >>

\* The candidate resorts are searched around a place: any exception of the
\* resolution is printed and makes run return 1, and so does a search that
\* finds no resort.
UseLocation(op, r) ==
    /\ geocode_queries' = r.queries
    /\ coordinates' = r.value
    /\ IF r.raised # ""
       THEN /\ ReturnError(r.message)
            /\ trace' = Append(trace, Called(op))
            /\ UNCHANGED << latitude, longitude, nearby_resorts >>
       ELSE LET lat == Get(r.value)[1]
                lon == Get(r.value)[2]
                found_nearby == find_nearby_resorts(lat, lon, radius_miles)
            IN  /\ latitude' = lat
                /\ longitude' = lon
                /\ nearby_resorts' = found_nearby
                /\ trace' = trace \o << Called(op), Called("find_nearby_resorts") >>
                /\ IF found_nearby = << >>
                   THEN ReturnError(None)
                   ELSE /\ pc' = "fetch"
                        /\ UNCHANGED << message, return_code >>
    /\ UNCHANGED << raised, resorts_config, resorts >>

\* run, from its start to the fetch loop: the candidate resorts come from
\* the command line's resort names, else from the command line's zipcode,
\* else from the configuration: its manual list if self.config.resorts is
\* truthy, a search around its location otherwise.
DetermineResorts ==
    /\ pc = "ready"
    /\ call = "run"
    /\ IF TruthyList(cli_resorts)
       THEN UseManualList(manual_resorts_of(Get(cli_resorts)))
       ELSE IF TruthyStr(cli_zipcode)
       THEN /\ zipcode' = Get(cli_zipcode)
            /\ UseLocation("get_coordinates_from_zipcode",
                           get_coordinates_from_zipcode(Get(cli_zipcode), geocoder))
       ELSE LET configured == Config_resorts(config_resorts)
            IN  IF configured.raised # ""
                THEN /\ raised' = configured.raised
                     /\ pc' = "raised"
                     /\ UNCHANGED << message, return_code, resorts_config, resorts,
                                     zipcode, geocode_queries, coordinates,
                                     latitude, longitude, nearby_resorts, trace >>
                ELSE IF TruthyList(configured.value)
                THEN UseManualList(Get(configured.value))
                ELSE /\ UseLocation("get_coordinates",
                                    get_coordinates(location_config, geocoder))
                     /\ UNCHANGED zipcode
    /\ UNCHANGED << call, name, found, location_config, geocoder, radius_miles,
                    resort_forecasts, events, analyzerVars, cli_resorts,
                    cli_zipcode, fetched, notified, config_resorts,
                    notifyVars, distanceVars, sharedVars >>

\* Mutant: the loop stays on its first resort for one more round.
candidate_index_repeating(fetches_made) ==
    IF fetches_made = 0 THEN 1 ELSE fetches_made

\* `for resort in nearby_resorts`: the place of the resort of the next round.
candidate_index(fetches_made) == fetches_made + 1

\* One round of the fetch loop: the forecast of the next candidate resort is
\* requested, and stored when the list that comes back is not empty.
FetchForecast ==
    /\ pc = "fetch"
    /\ Len(fetched) < Len(nearby_resorts)
    /\ \E outcome \in FetchOutcomes :
           LET r == get_forecast(outcome)
               candidate == nearby_resorts[candidate_index(Len(fetched))]
           IN  /\ fetched' = Append(fetched, outcome)
               /\ trace' = Append(trace, [op |-> "get_forecast",
                                          resort |-> candidate.name])
               /\ IF r.raised # ""
                  THEN /\ raised' = r.raised
                       /\ pc' = "raised"
                       /\ UNCHANGED resort_forecasts
                  ELSE /\ resort_forecasts' =
                              IF keep_forecasts(r.value)
                              THEN DictSet(resort_forecasts, candidate, r.value)
                              ELSE resort_forecasts
                       /\ UNCHANGED << pc, raised >>
    /\ UNCHANGED << events, analyzerVars, latitude, longitude, radius_miles,
                    nearby_resorts, resolveVars, cli_resorts, cli_zipcode,
                    notified, return_code, config_resorts,
                    notifyVars, distanceVars, sharedVars >>

\* run, after the fetch loop: the events of the mapping are found.
AnalyzeForecasts ==
    /\ pc = "fetch"
    /\ Len(fetched) = Len(nearby_resorts)
    /\ LET r == find_significant_events(threshold_inches, resort_forecasts)
       IN  /\ trace' = Append(trace, Called("find_significant_events"))
           /\ IF r.raised # ""
              THEN /\ raised' = r.raised
                   /\ pc' = "raised"
                   /\ UNCHANGED events
              ELSE /\ events' = r.value
                   /\ pc' = "notify"
                   /\ UNCHANGED raised
    /\ UNCHANGED << threshold_inches, resort, forecasts, event, finderVars,
                    resort_forecasts, resolveVars, cli_resorts, cli_zipcode,
                    fetched, notified, return_code, config_resorts,
                    notifyVars, distanceVars, sharedVars >>

\* The end of run: the events are handed to the notification manager and run
\* returns 0; what the notifier raises leaves run.
SendNotifications ==
    /\ pc = "notify"
    /\ call = "run"
    /\ LET n == notify(events, notifications, always_notify, delivery)
       IN  /\ notified' = Some(events)
           /\ sent' = n.sent
           /\ trace' = Append(trace, Called("notify"))
           /\ IF n.raised # ""
              THEN /\ raised' = n.raised
                   /\ pc' = "raised"
                   /\ UNCHANGED return_code
              ELSE /\ return_code' = Some(0)
                   /\ pc' = "returned"
                   /\ UNCHANGED raised
    /\ UNCHANGED << events, analyzerVars, finderVars, resort_forecasts,
                    resolveVars, cli_resorts, cli_zipcode, fetched,
                    config_resorts, notifications, always_notify, delivery,
                    distanceVars, sharedVars >>

NextRun ==
    \/ DetermineResorts
    \/ FetchForecast
    \/ AnalyzeForecasts
    \/ SendNotifications

SpecRun == InitRun /\ [][NextRun]_vars

\* ------------------------------------------------- properties of the analyzer

\* The snowfall amounts of the call's input, by position.
InputSnow == [i \in 1 .. Len(forecasts) |-> forecasts[i].snowfall_inches]

RECURSIVE SumOver(_)
SumOver(s) == IF s = << >> THEN 0 ELSE Head(s) + SumOver(Tail(s))

InputTotal == SumOver(InputSnow)

\* The positions of the input entries with snowfall > 0.
SnowIdx == { i \in 1 .. Len(forecasts) : forecasts[i].snowfall_inches > 0 }

\* The k-th smallest position with snowfall > 0.
KthSnowIdx(k) == CHOOSE i \in SnowIdx : Cardinality({ j \in SnowIdx : j <= i }) = k

Returned == pc = "done" /\ raised = ""
HasEvent == Returned /\ ~IsNone(event)
Absent == Returned /\ IsNone(event)

\* C1: for a non-empty forecast sequence analyze_forecast returns None if and
\* only if the sum of snowfall over all entries is strictly less than the
\* threshold; a sum equal to the threshold yields an event.
C1_AbsentIffBelowThreshold ==
    (pc = "done" /\ forecasts # << >>) =>
        /\ Absent <=> InputTotal < threshold_inches
        /\ HasEvent <=> InputTotal >= threshold_inches

\* An event returned for a sum exactly equal to the threshold.
C1_Witness ==
    /\ HasEvent
    /\ forecasts # << >>
    /\ InputTotal = threshold_inches

\* C2: analyze_forecast returns None for an empty forecast sequence whatever
\* the threshold, zero and negative thresholds included.
C2_EmptyIsAbsent ==
    (pc = "done" /\ forecasts = << >>) => Absent

\* The call made on an empty sequence with a threshold the empty sum meets.
C2_Witness ==
    /\ pc = "done"
    /\ forecasts = << >>
    /\ threshold_inches <= 0
    /\ Absent

\* C3: the event's retained days are exactly the input entries with
\* snowfall > 0, each once and in the input's order, and no more of them than
\* the input has entries.
C3_RetainedAreSnowDays ==
    HasEvent =>
        LET kept == Get(event).forecasts
        IN  /\ Len(kept) = Cardinality(SnowIdx)
            /\ \A k \in 1 .. Len(kept) : kept[k] = forecasts[KthSnowIdx(k)]
            /\ Len(kept) <= Len(forecasts)

\* An event whose input mixes days with snow, a day without and a negative one.
C3_Witness ==
    /\ HasEvent
    /\ Len(Get(event).forecasts) >= 1
    /\ \E i \in 1 .. Len(forecasts) : forecasts[i].snowfall_inches = 0
    /\ \E i \in 1 .. Len(forecasts) : forecasts[i].snowfall_inches < 0

\* C4: the event's total_snowfall is the sum and its max_daily_snowfall the
\* maximum of snowfall over all entries of the input, not over the retained
\* days only.
C4_TotalAndMaxOverWindow ==
    HasEvent =>
        /\ Get(event).total_snowfall = InputTotal
        /\ \E i \in 1 .. Len(forecasts) :
               Get(event).max_daily_snowfall = forecasts[i].snowfall_inches
        /\ \A i \in 1 .. Len(forecasts) :
               forecasts[i].snowfall_inches <= Get(event).max_daily_snowfall

\* An event for a window whose sum differs from the sum of its retained days.
C4_Witness ==
    /\ HasEvent
    /\ Get(event).forecasts # << >>
    /\ InputTotal # SumOver([k \in 1 .. Len(Get(event).forecasts) |->
                                Get(event).forecasts[k].snowfall_inches])

\* The retained list holds only entries of the input and is no longer than it.
RetainedWithinInput ==
    LET kept == Get(event).forecasts
    IN  /\ { kept[k] : k \in 1 .. Len(kept) }
              \subseteq { forecasts[i] : i \in 1 .. Len(forecasts) }
        /\ Len(kept) <= Len(forecasts)

\* C5 as stated: every event has total >= threshold and a retained list that
\* is a strict (proper) subset of the input.
C5_Original_StrictSubset ==
    HasEvent =>
        /\ Get(event).total_snowfall >= threshold_inches
        /\ RetainedWithinInput
        /\ Get(event).forecasts # forecasts
        /\ Len(Get(event).forecasts) < Len(forecasts)

\* C5 (amended): every event has total >= threshold; its retained list holds
\* only input entries and is the whole input exactly when every input day has
\* snowfall > 0, a proper part of it otherwise.
C5_ThresholdAndSubset ==
    HasEvent =>
        /\ Get(event).total_snowfall >= threshold_inches
        /\ RetainedWithinInput
        /\ (Get(event).forecasts = forecasts)
              <=> (\A i \in 1 .. Len(forecasts) : forecasts[i].snowfall_inches > 0)
        /\ (Len(Get(event).forecasts) < Len(forecasts))
              <=> (\E i \in 1 .. Len(forecasts) : forecasts[i].snowfall_inches <= 0)

\* An event for several days that all have snow: the retained list is the input.
C5_Witness ==
    /\ HasEvent
    /\ Len(forecasts) >= 2
    /\ Get(event).forecasts = forecasts

\* C6: an event's start_date is the date of its first retained entry and its
\* end_date the date of its last; both are None exactly when it retains none.
C6_StartEndDates ==
    HasEvent =>
        LET e == Get(event)
            kept == e.forecasts
        IN  /\ kept # << >> =>
                /\ e.start_date = Some(kept[1].date)
                /\ e.end_date = Some(kept[Len(kept)].date)
            /\ kept = << >> => (IsNone(e.start_date) /\ IsNone(e.end_date))
            /\ IsNone(e.start_date) <=> kept = << >>
            /\ IsNone(e.end_date) <=> kept = << >>

\* An event retaining several days whose first and last dates differ.
C6_Witness ==
    /\ HasEvent
    /\ Len(Get(event).forecasts) >= 2
    /\ Get(event).start_date # Get(event).end_date

\* A non-empty forecast sequence without any snow, and a threshold it meets.
AllZeroInput ==
    /\ forecasts # << >>
    /\ \A i \in 1 .. Len(forecasts) : forecasts[i].snowfall_inches = 0
    /\ threshold_inches <= 0

\* A non-empty forecast sequence that meets the threshold without one day of
\* snowfall > 0.
NoSnowDayInput ==
    /\ forecasts # << >>
    /\ SnowIdx = {}
    /\ InputTotal >= threshold_inches

\* C7: on a non-empty all-zero forecast sequence with threshold <= 0
\* analyze_forecast raises nothing and returns an event with
\* max_daily_snowfall 0, no retained day and no start or end date; no input
\* that meets the threshold without a day of snow makes it raise either.
C7_NoFailureOnZeroSnow ==
    /\ (pc = "done" /\ AllZeroInput) =>
          /\ raised = ""
          /\ ~IsNone(event)
          /\ Get(event).max_daily_snowfall = 0
          /\ Get(event).forecasts = << >>
          /\ IsNone(Get(event).start_date)
          /\ IsNone(Get(event).end_date)
    /\ (pc = "done" /\ NoSnowDayInput) =>
          /\ raised = ""
          /\ ~IsNone(event)
          /\ Get(event).forecasts = << >>
          /\ IsNone(Get(event).start_date)
          /\ IsNone(Get(event).end_date)

\* The call made on several all-zero days with a negative threshold.
C7_Witness ==
    /\ pc = "done"
    /\ AllZeroInput
    /\ Len(forecasts) >= 2
    /\ threshold_inches < 0
    /\ HasEvent

\* --------------------------------------------------- properties of the finder

\* A catalog resort's place in SKI_RESORTS (names are distinct in the table).
CatalogIndex(r) == CHOOSE k \in 1 .. Len(SKI_RESORTS) : SKI_RESORTS[k] = r

\* Distance of a resort from the call's origin.
FromOrigin(r) == distance_from(r, latitude, longitude)

\* The catalog resorts inside the call's radius, boundary included.
InRadius ==
    { SKI_RESORTS[k] : k \in { j \in 1 .. Len(SKI_RESORTS) :
                                 FromOrigin(SKI_RESORTS[j]) <= radius_miles } }

\* C8: find_nearby_resorts returns exactly the catalog resorts whose distance
\* to the origin is <= the radius: none farther, none missing, none twice, and
\* an empty list (no exception) when none qualifies.
C8_ExactlyWithinRadius ==
    pc = "done" =>
        /\ raised = ""
        /\ { nearby_resorts[i] : i \in 1 .. Len(nearby_resorts) } = InRadius
        /\ \A i, j \in 1 .. Len(nearby_resorts) :
               i # j => nearby_resorts[i] # nearby_resorts[j]
        /\ InRadius = {} => nearby_resorts = << >>

\* A search that keeps a resort lying exactly on the radius and drops another.
C8_Witness ==
    /\ pc = "done"
    /\ \E i \in 1 .. Len(nearby_resorts) :
           FromOrigin(nearby_resorts[i]) = radius_miles
    /\ Len(nearby_resorts) < Len(SKI_RESORTS)
    /\ Len(nearby_resorts) >= 2

\* C9: the list returned by find_nearby_resorts is in non-decreasing order of
\* distance from the origin.
C9_SortedByDistance ==
    pc = "done" =>
        \A i, j \in 1 .. Len(nearby_resorts) :
            i < j => FromOrigin(nearby_resorts[i]) <= FromOrigin(nearby_resorts[j])

\* A result in which a resort declared later in the catalog comes first,
\* being nearer.
C9_Witness ==
    /\ pc = "done"
    /\ \E i, j \in 1 .. Len(nearby_resorts) :
           /\ i < j
           /\ FromOrigin(nearby_resorts[i]) < FromOrigin(nearby_resorts[j])
           /\ CatalogIndex(nearby_resorts[i]) > CatalogIndex(nearby_resorts[j])

\* C10: two resorts of the result at equal distance from the origin appear in
\* the order in which SKI_RESORTS declares them.
C10_TiesKeepCatalogOrder ==
    pc = "done" =>
        \A i, j \in 1 .. Len(nearby_resorts) :
            (i < j /\ FromOrigin(nearby_resorts[i]) = FromOrigin(nearby_resorts[j]))
                => CatalogIndex(nearby_resorts[i]) < CatalogIndex(nearby_resorts[j])

\* A result holding two equally distant resorts after a nearer one that the
\* catalog declares later.
C10_Witness ==
    /\ pc = "done"
    /\ \E i, j, k \in 1 .. Len(nearby_resorts) :
           /\ i < j /\ j < k
           /\ FromOrigin(nearby_resorts[i]) < FromOrigin(nearby_resorts[j])
           /\ FromOrigin(nearby_resorts[j]) = FromOrigin(nearby_resorts[k])
           /\ CatalogIndex(nearby_resorts[i]) > CatalogIndex(nearby_resorts[j])

\* ------------------------------------ properties of find_significant_events

\* The total of the forecasts the mapping holds at position i.
EntryTotal(i) ==
    SumOver([k \in 1 .. Len(resort_forecasts[i][2]) |->
                 resort_forecasts[i][2][k].snowfall_inches])

\* The mapping entries for which analyze_forecast returns an event: those with
\* a non-empty forecast whose total reaches the threshold.
Significant ==
    { i \in 1 .. Len(resort_forecasts) :
          /\ resort_forecasts[i][2] # << >>
          /\ EntryTotal(i) >= threshold_inches }

\* The place in the mapping of the resort an event is about.
EntryOf(e) == CHOOSE i \in 1 .. Len(resort_forecasts) : resort_forecasts[i][1] = e.resort

\* C11: find_significant_events returns one event for each mapping entry with
\* a non-empty forecast whose total is >= the threshold (each being what
\* analyze_forecast returns for that entry), and no event for any other entry.
C11_OneEventPerSignificantEntry ==
    pc = "done" =>
        /\ raised = ""
        /\ Len(events) = Cardinality(Significant)
        /\ { events[k].resort : k \in 1 .. Len(events) }
              = { resort_forecasts[i][1] : i \in Significant }
        /\ \A k \in 1 .. Len(events) :
               /\ events[k].total_snowfall = EntryTotal(EntryOf(events[k]))
               /\ events[k].total_snowfall >= threshold_inches

\* A mapping of three resorts of which the first and the last get an event
\* and the one between them does not.
C11_Witness ==
    /\ pc = "done"
    /\ Len(resort_forecasts) = 3
    /\ Significant = { 1, 3 }
    /\ Len(events) = 2

\* C12: the list returned by find_significant_events is in non-increasing
\* order of total snowfall, and events with equal totals are in the mapping's
\* iteration order.
C12_DescendingAndStable ==
    pc = "done" =>
        \A i, j \in 1 .. Len(events) :
            i < j =>
                /\ events[i].total_snowfall >= events[j].total_snowfall
                /\ events[i].total_snowfall = events[j].total_snowfall
                      => EntryOf(events[i]) < EntryOf(events[j])

\* Three events: the largest total comes from the last mapping entry, the
\* other two totals are equal.
C12_Witness ==
    /\ pc = "done"
    /\ Len(events) = 3
    /\ EntryOf(events[1]) = 3
    /\ events[2].total_snowfall = events[3].total_snowfall
    /\ events[1].total_snowfall > events[2].total_snowfall

\* ------------------------------------------ properties of the manual list

\* Two characters are the same letter in either case, or the same character.
SameCharIgnoringCase(a, b) ==
    \/ a = b
    \/ \E k \in 1 .. 26 : { a, b } = { UpperLetters[k], LowerLetters[k] }

\* Two strs of the same length whose characters agree ignoring case.
SameIgnoringCase(a, b) ==
    LET x == Chars(a)
        y == Chars(b)
    IN  /\ Len(x) = Len(y)
        /\ \A k \in 1 .. Len(x) : SameCharIgnoringCase(x[k], y[k])

\* The catalog entries whose name is the given one ignoring case.
Matches(n) == { j \in 1 .. Len(SKI_RESORTS) : SameIgnoringCase(SKI_RESORTS[j].name, n) }

\* The shapes of a manual resort spec.
NameOnly(spec) ==
    /\ "name" \in DOMAIN spec
    /\ "latitude" \notin DOMAIN spec
    /\ "longitude" \notin DOMAIN spec
FullCustom(spec) == { "name", "latitude", "longitude" } \subseteq DOMAIN spec
InvalidShape(spec) == ~NameOnly(spec) /\ ~FullCustom(spec)

\* get_resorts_from_config has returned / has returned a list.
ManualListDone == pc = "done" /\ call = "get_resorts_from_config"
ManualListReturned == ManualListDone /\ raised = "" /\ resorts # None

\* The i-th resort of the returned list is the catalog entry the i-th spec
\* names.
IsCatalogEntryOf(r, spec) ==
    \E j \in Matches(spec["name"]) :
        /\ r.name = SKI_RESORTS[j].name
        /\ r.latitude = SKI_RESORTS[j].latitude
        /\ r.longitude = SKI_RESORTS[j].longitude
        /\ r.elevation = SKI_RESORTS[j].elevation
        /\ r.state = SKI_RESORTS[j].state

\* The i-th resort of the returned list is the ad-hoc resort the i-th spec
\* describes; an elevation or state the spec leaves out is None.
IsAdHocResortOf(r, spec) ==
    /\ r.name = spec["name"]
    /\ r.latitude = spec["latitude"]
    /\ r.longitude = spec["longitude"]
    /\ IF "elevation" \in DOMAIN spec THEN r.elevation = Some(spec["elevation"])
                                      ELSE r.elevation = None
    /\ IF "state" \in DOMAIN spec THEN r.state = Some(spec["state"])
                                  ELSE r.state = None

\* C13: when get_resorts_from_config returns, its list is as long as the list
\* of specs, and its i-th resort is the one resolved from the i-th spec: the
\* catalog entry of that name for a name-only spec, the ad-hoc resort for a
\* full custom spec; every resort carries the name of the spec at its place
\* (ignoring case), so the list is in the order of the specs.
C13_OutputFollowsSpecs ==
    ManualListReturned =>
        /\ Len(Get(resorts)) = Len(resorts_config)
        /\ \A i \in 1 .. Len(resorts_config) :
               LET spec == resorts_config[i]
                   r == Get(resorts)[i]
               IN  /\ "name" \in DOMAIN spec
                   /\ SameIgnoringCase(r.name, spec["name"])
                   /\ NameOnly(spec) => IsCatalogEntryOf(r, spec)
                   /\ FullCustom(spec) => IsAdHocResortOf(r, spec)

\* A custom resort first and a catalog resort, named in lower case, second.
C13_Witness ==
    /\ ManualListReturned
    /\ Len(resorts_config) = 2
    /\ FullCustom(resorts_config[1])
    /\ resorts_config[1]["name"] = "My Hill"
    /\ NameOnly(resorts_config[2])
    /\ resorts_config[2]["name"] = "breckenridge"
    /\ Get(resorts)[2].name = "Breckenridge"

\* A name-only spec that names no catalog entry.
Unmatched(spec) == NameOnly(spec) /\ Matches(spec["name"]) = {}

\* The call failed with the unknown-resort error about the given spec: the
\* message names the resort and lists the name of every catalog entry, and
\* no list is returned.
UnknownResortErrorFor(spec) ==
    /\ raised = "ValueError"
    /\ resorts = None
    /\ message # None
    /\ Get(message).kind = "not found in database"
    /\ Get(message).resort_name = spec["name"]
    /\ Get(message).available = [j \in 1 .. Len(SKI_RESORTS) |-> SKI_RESORTS[j].name]

\* C14 as stated: whenever some name-only spec of the list has no match, the
\* call fails with the unknown-resort error (about an unmatched spec).
C14_Original_WheneverUnmatched ==
    ManualListDone =>
        ((\E i \in 1 .. Len(resorts_config) : Unmatched(resorts_config[i]))
            => \E i \in 1 .. Len(resorts_config) :
                   /\ Unmatched(resorts_config[i])
                   /\ UnknownResortErrorFor(resorts_config[i]))

\* The code resolves the spec: it takes it for a name lookup that finds an
\* entry, or for a custom resort.
Resolves(spec) ==
    /\ "name" \in DOMAIN spec
    /\ IF "latitude" \in DOMAIN spec THEN "longitude" \in DOMAIN spec
                                     ELSE Matches(spec["name"]) # {}

\* C14: get_resorts_from_config fails with the unknown-resort error whenever
\* the first spec of the list that does not resolve is a name-only spec with
\* no match ignoring case in the catalog; the error names that resort and
\* lists every catalog name, and no list is returned.
C14_UnknownResortError ==
    ManualListDone =>
        \A i \in 1 .. Len(resorts_config) :
            (/\ Unmatched(resorts_config[i])
             /\ \A k \in 1 .. i - 1 : Resolves(resorts_config[k]))
                => UnknownResortErrorFor(resorts_config[i])

\* A catalog resort resolved first, then the spec {name: "Nonexistent"}.
C14_Witness ==
    /\ ManualListDone
    /\ Len(resorts_config) = 2
    /\ NameOnly(resorts_config[1])
    /\ resorts_config[1]["name"] = "Vail"
    /\ DOMAIN resorts_config[2] = { "name" }
    /\ resorts_config[2]["name"] = "Nonexistent"
    /\ UnknownResortErrorFor(resorts_config[2])

\* The call failed with the invalid-spec error about the given spec.
InvalidSpecErrorFor(spec) ==
    /\ raised = "ValueError"
    /\ resorts = None
    /\ message # None
    /\ Get(message).kind = "Invalid resort specification"
    /\ Get(message).resort_spec = spec

\* C15: get_resorts_from_config fails with the invalid-spec error for every
\* spec that is neither name-only nor a full custom spec (latitude without
\* longitude, longitude without latitude, no name), when it is the first
\* spec of the list that is not a resolvable name-only or full custom spec.
C15_InvalidSpecError ==
    ManualListDone =>
        \A i \in 1 .. Len(resorts_config) :
            (/\ InvalidShape(resorts_config[i])
             /\ \A k \in 1 .. i - 1 :
                    \/ FullCustom(resorts_config[k])
                    \/ NameOnly(resorts_config[k]) /\ ~Unmatched(resorts_config[k]))
                => InvalidSpecErrorFor(resorts_config[i])

\* ------------------------------------------ properties of the name lookup

LookupDone == pc = "done" /\ call = "_find_resort_by_name"

\* C16: _find_resort_by_name returns a catalog entry whose name is the
\* argument ignoring case, the same entry for every upper/lower-case variant
\* of a name, and None exactly when no catalog name equals the argument
\* ignoring case (a name one character shorter or different is not a match).
C16_CaseInsensitiveExactMatch ==
    LookupDone =>
        /\ found # None =>
               \E j \in Matches(name) :
                   /\ Get(found) = SKI_RESORTS[j]
                   /\ \A k \in Matches(name) : j <= k
        /\ found = None <=> Matches(name) = {}

\* "vAiL" finds the entry Vail.
C16_Witness ==
    /\ LookupDone
    /\ name = "vAiL"
    /\ found = Some(SKI_RESORTS[1])

\* No two entries of the whole table have names that are equal ignoring case.
CatalogNamesUnique ==
    \A i, j \in 1 .. Len(SKI_RESORT_NAMES) :
        i # j => ~SameIgnoringCase(SKI_RESORT_NAMES[i], SKI_RESORT_NAMES[j])

\* The entries of the whole table a lookup of the name could return.
TableMatches(n) ==
    { j \in 1 .. Len(SKI_RESORT_NAMES) : SameIgnoringCase(SKI_RESORT_NAMES[j], n) }

\* C17: no two entries of the table a lookup searches, SKI_RESORTS, have
\* names that are equal ignoring case, so the lookup matches at most one
\* entry of the table.
C17_CatalogNamesUnique ==
    LookupDone =>
        /\ CatalogNamesUnique
        /\ \A j \in 1 .. Len(SKI_RESORTS) : SKI_RESORTS[j].name = SKI_RESORT_NAMES[j]
        /\ Cardinality(TableMatches(name)) <= 1

\* A lookup in another case than the table's, which matches exactly one
\* entry.
C17_Witness ==
    /\ LookupDone
    /\ name = "vail"
    /\ TableMatches(name) = { 1 }
    /\ found # None

\* ---------------------------------------- properties of origin resolution

GetCoordinatesDone == pc = "done" /\ call = "get_coordinates"
ZipcodeDone == pc = "done" /\ call = "get_coordinates_from_zipcode"

\* C18: get_coordinates, given a configuration with both latitude and
\* longitude, returns these two values and sends no query to the geocoder,
\* whatever other keys the configuration has.
C18_CoordinatesPassThrough ==
    (/\ GetCoordinatesDone
     /\ { "latitude", "longitude" } \subseteq DOMAIN location_config)
        => /\ raised = ""
           /\ coordinates = Some(<< location_config["latitude"],
                                    location_config["longitude"] >>)
           /\ geocode_queries = << >>

\* Coordinates next to a city, a state and a country, with a geocoder that
\* would have found another place.
C18_Witness ==
    /\ GetCoordinatesDone
    /\ DOMAIN location_config = { "latitude", "longitude", "city", "state", "country" }
    /\ geocoder.outcome = "match"
    /\ coordinates = Some(<< 1, 2 >>)

\* The call asked the geocoder, which found no place or failed.
GeocodingFailed ==
    /\ GetCoordinatesDone \/ ZipcodeDone
    /\ geocode_queries # << >>
    /\ geocoder.outcome \in { "none", "raises" }

\* C19: geocoding resolution fails with the geocode error (ValueError) in
\* both cases, the geocoder finding no match and the geocoder raising, and
\* the error carries the query (or zipcode) that failed.
C19_GeocodeError ==
    GeocodingFailed =>
        /\ raised = "ValueError"
        /\ coordinates = None
        /\ message # None
        /\ "query" \in DOMAIN Get(message)
        /\ Get(message).query = geocode_queries[1]

\* ------------------------------------------------- properties of the run

\* The k-th request came back with a forecast list that is not empty.
Stored(k) == fetched[k].raised = "" /\ fetched[k].value # << >>

\* The k-th request failed (RequestException) or came back with an empty
\* list.
FailedOrEmpty(k) ==
    \/ fetched[k].raised = "RequestException"
    \/ fetched[k].raised = "" /\ fetched[k].value = << >>

\* The k-th request came back with a payload that cannot be parsed.
Unparsable(k) == fetched[k].raised = "ValueError"

\* The requests of the candidate resort at place k that stored a list.
StoredFor(k) ==
    { j \in 1 .. Len(fetched) : Stored(j) /\ nearby_resorts[j] = nearby_resorts[k] }

CallsOf(op) == { i \in 1 .. Len(trace) : trace[i].op = op }

\* The run has passed the choice of its candidate resorts.
Determined == call = "run" /\ pc # "ready"

\* C21: whenever a manual resort list is present, on the command line or in
\* the configuration, the run resolves that list into its candidate resorts
\* and makes no location-based search: no geocoding and no
\* find_nearby_resorts, whatever location or zipcode is also given.
C21_ManualListOverridesLocation ==
    (Determined /\ (TruthyList(cli_resorts) \/ TruthyList(config_resorts))) =>
        /\ CallsOf("get_resorts_from_config") = { 1 }
        /\ resorts_config = IF TruthyList(cli_resorts)
                            THEN manual_resorts_of(Get(cli_resorts))
                            ELSE Get(config_resorts)
        /\ CallsOf("get_coordinates_from_zipcode") = {}
        /\ CallsOf("get_coordinates") = {}
        /\ CallsOf("find_nearby_resorts") = {}
        /\ geocode_queries = << >>

\* C22: reading the resorts accessor of Config never fails and gives the
\* file's 'resorts' key (None without one), so a run without resorts and
\* without zipcode on the command line reaches the configuration's manual
\* list or the search around the configuration's location.
C22_ConfigResortsAccessor ==
    /\ Config_resorts(config_resorts) = [raised |-> "", value |-> config_resorts]
    /\ (Determined /\ ~TruthyList(cli_resorts) /\ ~TruthyStr(cli_zipcode)) =>
           /\ raised # "AttributeError"
           /\ trace # << >>
           /\ trace[1].op = IF TruthyList(config_resorts)
                            THEN "get_resorts_from_config"
                            ELSE "get_coordinates"

\* The names of the resorts the forecast source was asked for, in order.
FetchedNames ==
    LET fetches == SelectSeq(trace, LAMBDA c : c.op = "get_forecast")
    IN  [i \in 1 .. Len(fetches) |-> fetches[i].resort]

\* No forecast request of the run ended in an unreadable payload.
EveryFetchReturned == \A k \in 1 .. Len(fetched) : ~Unparsable(k)

RunOver == call = "run" /\ pc \in { "returned", "raised" }

\* C26: run returns 0 exactly when it invoked the notification manager
\* once; on a path that returns 1 no forecast is requested and no
\* notification is sent; when every request comes back empty the run
\* notifies with an empty event list and returns 0.
C26_ReturnCodeAndNotification ==
    RunOver =>
        /\ return_code = Some(0) <=> Cardinality(CallsOf("notify")) = 1
        /\ return_code = Some(1) =>
               /\ CallsOf("get_forecast") = {}
               /\ CallsOf("notify") = {}
               /\ sent = << >>
        /\ (fetched # << >> /\ \A k \in 1 .. Len(fetched) : FailedOrEmpty(k)) =>
               /\ notified = Some(<< >>)
               /\ return_code = Some(0)

\* --------------------------------------------- the core and shared state

\* What the operation of a thread returns on its arguments alone.
ResultOf(th) ==
    CASE th.op = "find_nearby_resorts" ->
             find_nearby_resorts(th.arg[1], th.arg[2], th.arg[3])
      [] th.op = "find_resort_by_name" -> find_resort_by_name(th.arg[1])
      [] th.op = "get_resorts_from_config" -> get_resorts_from_config(th.arg[1])
      [] th.op = "analyze_forecast" ->
             analyze_forecast(threshold_inches, th.arg[1], SharedForecasts)
      [] th.op = "find_significant_events" ->
             find_significant_events(threshold_inches, SharedMapping)

\* The catalog and the callers' inputs are as they were at the start, and
\* every call that has returned returned what its operation gives on the
\* call's arguments.
SharedUntouched ==
    /\ catalog = SKI_RESORTS
    /\ forecasts = SharedForecasts
    /\ resort_forecasts = SharedMapping
    /\ \A t \in DOMAIN threads :
           ~IsNone(threads[t].result) =>
               Get(threads[t].result) = ResultOf(threads[t])

\* C24: no step of find_nearby_resorts, get_resorts_from_config,
\* _find_resort_by_name, analyze_forecast or find_significant_events, in any
\* interleaving of the threads, changes the catalog (length, order, fields
\* of the entries), the analyzer's threshold, or the shared forecast list
\* and mapping; so every call returns what its operation gives on its own
\* arguments.
C24_NoSharedWrites ==
    /\ [](threads # << >> => SharedUntouched)
    /\ [][/\ catalog' = catalog
          /\ threshold_inches' = threshold_inches
          /\ forecasts' = forecasts
          /\ resort_forecasts' = resort_forecasts]_vars

\* Thread 2 has finished a find_nearby_resorts call that returned at least
\* three resorts with the third catalog entry first, while thread 1 is in
\* the middle of its own scan of the catalog, which is as declared.
C24_Witness ==
    /\ threads # << >>
    /\ threads[1].op = "find_nearby_resorts"
    /\ threads[1].i = 3
    /\ IsNone(threads[1].result)
    /\ threads[2].op = "find_nearby_resorts"
    /\ threads[2].arg = << 1, 1, 2 >>
    /\ ~IsNone(threads[2].result)
    /\ Len(Get(threads[2].result)) >= 3
    /\ Get(threads[2].result)[1] = SKI_RESORTS[3]
    /\ catalog = SKI_RESORTS

\* ------------------------------- the analyzer on non-negative snowfall

\* Every day of the input has snowfall >= 0.
NonNegativeInput == \A i \in 1 .. Len(forecasts) : forecasts[i].snowfall_inches >= 0

\* The snowfall amounts of the days an event retains, by position.
RetainedSnow(e) == [k \in 1 .. Len(e.forecasts) |-> e.forecasts[k].snowfall_inches]

\* C29: for an event analyze_forecast returns on an input whose snowfall
\* values are all >= 0, total_snowfall is the sum of snowfall over the
\* retained days, max_daily_snowfall is the largest snowfall of a retained
\* day (0 when none is retained) and is <= total_snowfall, and with a
\* threshold > 0 some day is retained and both dates are present.
C29_NonNegativeEvent ==
    (HasEvent /\ NonNegativeInput) =>
        LET e == Get(event)
            kept == RetainedSnow(e)
        IN  /\ e.total_snowfall = SumOver(kept)
            /\ kept = << >> => e.max_daily_snowfall = 0
            /\ kept # << >> =>
                   /\ \E k \in 1 .. Len(kept) : e.max_daily_snowfall = kept[k]
                   /\ \A k \in 1 .. Len(kept) : kept[k] <= e.max_daily_snowfall
            /\ e.max_daily_snowfall <= e.total_snowfall
            /\ threshold_inches > 0 =>
                   /\ kept # << >>
                   /\ ~IsNone(e.start_date)
                   /\ ~IsNone(e.end_date)

\* An event over a zero day, a small day and a larger day, under a positive
\* threshold: two days are retained and the largest is not the first.
C29_Witness ==
    /\ HasEvent
    /\ NonNegativeInput
    /\ threshold_inches > 0
    /\ Len(forecasts) = 3
    /\ Len(Get(event).forecasts) = 2
    /\ forecasts[1].snowfall_inches < Get(event).max_daily_snowfall

\* -------------------------------------------- properties of the distance

NotifyDone == pc = "done" /\ call = "notify"

\* The channel the manager sends through.
Channel ==
    IF "method" \in DOMAIN notifications /\ notifications["method"] \in { "email", "webhook" }
    THEN notifications["method"]
    ELSE "console"

\* The section of the channel has a non-empty value for the key.
ChannelHas(k) ==
    /\ Channel \in DOMAIN notifications
    /\ k \in DOMAIN notifications[Channel]
    /\ notifications[Channel][k] # ""

\* The configuration of the channel is complete: server, addresses and
\* password for email, the URL for the webhook.
ChannelComplete ==
    IF Channel = "email"
    THEN \A k \in { "smtp_server", "from_email", "to_email", "password" } : ChannelHas(k)
    ELSE ChannelHas("url")

\* Exactly one message of the kind was handed to the channel.
SentOne(kind) ==
    /\ Len(sent) = 1
    /\ sent[1].channel = Channel
    /\ sent[1].kind = kind

\* C27: through email and webhook with a complete configuration, no message
\* is sent for no events without always_notify, exactly one confirmation for
\* no events with always_notify, and exactly one alert for one or more events
\* whatever always_notify; with an incomplete configuration nothing is sent.
C27_MessagesPerChannel ==
    (NotifyDone /\ Channel \in { "email", "webhook" }) =>
        IF ChannelComplete
        THEN /\ (events = << >> /\ ~always_notify) => sent = << >>
             /\ (events = << >> /\ always_notify) => SentOne("confirmation")
             /\ events # << >> => SentOne("alert")
        ELSE sent = << >>

\* C28: WebhookNotification.send raises nothing, for every event list
\* find_significant_events makes of catalog and custom resorts, a custom
\* resort without a state and an event without dates included, and whether
\* the delivery succeeds or fails.
C28_WebhookNeverRaises ==
    (NotifyDone /\ Channel = "webhook") => raised = ""

====
